---- MODULE Spec2Model ----
(***************************************************************************)
(* Model of the beamline real-time control core: the two RTLoop            *)
(* implementations (the struct RTLoop with the machine protection system,  *)
(* and the class RTLoop of control/loop.hpp), the PID regulator, the       *)
(* machine protection system with its beam loss monitors, the periodic     *)
(* clock, the deadline watchdog and the command endpoint.                  *)
(*                                                                         *)
(* Fixed-point units: positions, currents, gains, setpoints and the        *)
(* integrator are in 1/1000 of their source unit; intensity is in 1000     *)
(* counts; loss rates are in 1e-12 Gy/s; times are in nanoseconds and the  *)
(* PID time step is in 1e-4 s; frequencies are in Hz.                      *)
(***************************************************************************)
EXTENDS Integers, Sequences, FiniteSets, TLC

\* ------------------------------------------------------------------ bounds
MaxTicks == 2      \* iterations of the loop that are explored
MaxSends == 2      \* requests the clients send in one run
MaxPending == 1    \* requests that can be queued at the command endpoint
MaxCalls == 5      \* calls made on a Watchdog exercised on its own
MaxThreadCalls == 2  \* calls of check each thread makes on a shared Watchdog
MaxClockCalls == 4   \* calls made on a PeriodicClock exercised on its own
MaxPidCalls == 4     \* calls made on a PID exercised on its own
MaxCommands == 3     \* commands handed to a loop that is not running
MaxBlmCalls == 4     \* calls made on a BeamLossMonitor exercised on its own
RingCapacity == 2    \* elements the RingBuffer under test holds
MaxPushes == 3       \* pushes each producer thread makes
MaxRounds == 1       \* calls of for_each the consumer thread makes
MaxRecvCalls == 3    \* calls of recv made on a ControlRep exercised on its own

\* ------------------------------------------------------- program constants
magnet_min == -2000                 \* Limits::magnet_min  (-2.0 A)
magnet_max == 2000                  \* Limits::magnet_max  ( 2.0 A)
threshold_warning == 1000000        \* BeamLossMonitor::threshold_warning_ (1e-6 Gy/s)
threshold_abort == 10000000         \* BeamLossMonitor::threshold_abort_   (1e-5 Gy/s)
critical_consecutive_threshold == 5 \* Watchdog::critical_consecutive_threshold
warning_consecutive_threshold == 10 \* Watchdog::warning_consecutive_threshold
\* UINT64_MAX, the initial min_execution_ns: written as 2^31 - 1, which like
\* 2^64 - 1 is above every duration that is measured
UINT64_MAX == 2147483647
BufSize == 1024                     \* char buf[1024] of ControlRep::recv

Min(a, b) == IF b < a THEN b ELSE a     \* std::min
Max(a, b) == IF a < b THEN b ELSE a     \* std::max

\* the identifiers of the three default beam loss monitors, in vector order
BlmIds == <<"BLM_UPSTREAM", "BLM_TARGET", "BLM_DOWNSTREAM">>

\* ------------------------------------------------------------------- JSON
\* A JSON value is a tagged record; an object carries a record of members.
JNum(n) == [t |-> "num", v |-> n]
JStr(s) == [t |-> "str", s |-> s]
JBool(b) == [t |-> "bool", b |-> b]
JArr == [t |-> "arr"]
JDiscarded == [t |-> "discarded"]
JObj(m) == [t |-> "obj", m |-> m]

\* The request payloads the clients send, as they appear on the wire.
P_empty == ""
P_garbage == "not json"
P_array == "[1,2]"
P_nocmd == "{\"kp\":2.0}"
P_unknown == "{\"cmd\":\"invalid\"}"
P_numcmd == "{\"cmd\":5}"
P_set_pid == "{\"cmd\":\"set_pid\",\"kp\":2.0,\"ki\":1.0,\"kd\":0.5}"
P_set_pid_kp == "{\"cmd\":\"set_pid\",\"kp\":0.0}"
P_set_pid_bad == "{\"cmd\":\"set_pid\",\"kp\":2.0,\"ki\":\"high\"}"
P_set_freq_500 == "{\"cmd\":\"set_freq\",\"hz\":500}"
P_set_freq_5 == "{\"cmd\":\"set_freq\",\"hz\":5}"
P_set_freq_10000 == "{\"cmd\":\"set_freq\",\"hz\":10000}"
P_set_freq_bad == "{\"cmd\":\"set_freq\",\"hz\":\"fast\"}"
P_set_setpoint == "{\"cmd\":\"set_setpoint\",\"sp\":1.5}"
P_recommission == "{\"cmd\":\"recommission\"}"
P_emergency_stop == "{\"cmd\":\"emergency_stop\"}"
P_enable_true == "{\"cmd\":\"enable_control\",\"enable\":true}"
P_enable_false == "{\"cmd\":\"enable_control\",\"enable\":false}"
P_enable_bad == "{\"cmd\":\"enable_control\",\"enable\":\"yes\"}"
P_get_status == "{\"cmd\":\"get_status\"}"
P_stop == "{\"cmd\":\"stop\"}"
\* set_pid with the three gains a client copied from a get_status reply
P_set_pid_reported == "{\"cmd\":\"set_pid\", ...pid_gains of the reply}"

\* every payload the model knows
AllPayloads ==
  { P_empty, P_garbage, P_array, P_nocmd, P_unknown, P_numcmd,
    P_set_pid, P_set_pid_kp, P_set_pid_bad,
    P_set_freq_500, P_set_freq_5, P_set_freq_10000, P_set_freq_bad,
    P_set_setpoint, P_recommission, P_emergency_stop,
    P_enable_true, P_enable_false, P_enable_bad, P_get_status, P_stop }

\* the payloads the clients of the running loop send
Payloads ==
  { P_empty, P_garbage, P_array, P_nocmd, P_unknown,
    P_set_pid, P_set_pid_bad, P_set_freq_500, P_set_freq_bad,
    P_set_setpoint, P_recommission, P_emergency_stop,
    P_enable_true, P_enable_false, P_enable_bad, P_get_status, P_stop }

\* json::parse on each payload; text that is not JSON gives no value
\* (a discarded value without exceptions, a parse_error with them).
Parse(s) ==
  CASE s = P_empty -> JDiscarded
    [] s = P_garbage -> JDiscarded
    [] s = P_array -> JArr
    [] s = P_nocmd -> JObj([kp |-> JNum(2000)])
    [] s = P_unknown -> JObj([cmd |-> JStr("invalid")])
    [] s = P_numcmd -> JObj([cmd |-> JNum(5)])
    [] s = P_set_pid ->
         JObj([cmd |-> JStr("set_pid"), kp |-> JNum(2000), ki |-> JNum(1000),
               kd |-> JNum(500)])
    [] s = P_set_pid_kp -> JObj([cmd |-> JStr("set_pid"), kp |-> JNum(0)])
    [] s = P_set_pid_bad ->
         JObj([cmd |-> JStr("set_pid"), kp |-> JNum(2000), ki |-> JStr("high")])
    [] s = P_set_freq_500 -> JObj([cmd |-> JStr("set_freq"), hz |-> JNum(500)])
    [] s = P_set_freq_5 -> JObj([cmd |-> JStr("set_freq"), hz |-> JNum(5)])
    [] s = P_set_freq_10000 -> JObj([cmd |-> JStr("set_freq"), hz |-> JNum(10000)])
    [] s = P_set_freq_bad -> JObj([cmd |-> JStr("set_freq"), hz |-> JStr("fast")])
    [] s = P_set_setpoint -> JObj([cmd |-> JStr("set_setpoint"), sp |-> JNum(1500)])
    [] s = P_recommission -> JObj([cmd |-> JStr("recommission")])
    [] s = P_emergency_stop -> JObj([cmd |-> JStr("emergency_stop")])
    [] s = P_enable_true ->
         JObj([cmd |-> JStr("enable_control"), enable |-> JBool(TRUE)])
    [] s = P_enable_false ->
         JObj([cmd |-> JStr("enable_control"), enable |-> JBool(FALSE)])
    [] s = P_enable_bad ->
         JObj([cmd |-> JStr("enable_control"), enable |-> JStr("yes")])
    [] s = P_get_status -> JObj([cmd |-> JStr("get_status")])
    [] s = P_stop -> JObj([cmd |-> JStr("stop")])

is_object(j) == j.t = "obj"
contains(j, key) == key \in DOMAIN j.m

\* j["cmd"] == name : a missing member reads as null, and only a string
\* member equal to name compares equal.
CmdIs(j, name) ==
  /\ contains(j, "cmd")
  /\ j.m["cmd"].t = "str"
  /\ j.m["cmd"].s = name

\* j.value(key, default) converted to a double: the default when the member
\* is absent, type_error when the member is not a number.
ValueNum(j, key, default) ==
  IF ~contains(j, key) THEN [thrown |-> FALSE, v |-> default]
  ELSE IF j.m[key].t = "num" THEN [thrown |-> FALSE, v |-> j.m[key].v]
  ELSE [thrown |-> TRUE, v |-> default]

\* j.value(key, default) converted to a bool: type_error unless a boolean.
ValueBool(j, key, default) ==
  IF ~contains(j, key) THEN [thrown |-> FALSE, v |-> default]
  ELSE IF j.m[key].t = "bool" THEN [thrown |-> FALSE, v |-> j.m[key].b]
  ELSE [thrown |-> TRUE, v |-> default]

\* ---- numbers as JSON text
\* A number of the model is a count of thousandths.  Its text is
\* [neg, int, frac]: the sign, the digits before the point and the digits
\* after it, of which dump() writes at least one and no trailing zero.

RECURSIVE Digits(_)
Digits(n) == IF n < 10 THEN <<n>> ELSE Append(Digits(n \div 10), n % 10)

RECURSIVE StripZeros(_)
StripZeros(ds) ==
  IF Len(ds) > 1 /\ ds[Len(ds)] = 0
  THEN StripZeros(SubSeq(ds, 1, Len(ds) - 1))
  ELSE ds

Abs(n) == IF n < 0 THEN -n ELSE n

\* json::dump of a number
FormatNumber(n) ==
  LET m == Abs(n) % 1000
  IN [neg |-> n < 0,
      int |-> Digits(Abs(n) \div 1000),
      frac |-> StripZeros(<<m \div 100, (m \div 10) % 10, m % 10>>)]

RECURSIVE ValueOfDigits(_)
ValueOfDigits(ds) ==
  IF ds = <<>> THEN 0
  ELSE 10 * ValueOfDigits(SubSeq(ds, 1, Len(ds) - 1)) + ds[Len(ds)]

\* the thousandths written by up to three digits after the point
ValueOfFraction(ds) ==
  (IF Len(ds) >= 1 THEN 100 * ds[1] ELSE 0)
    + (IF Len(ds) >= 2 THEN 10 * ds[2] ELSE 0)
    + (IF Len(ds) >= 3 THEN ds[3] ELSE 0)

\* a parse that reads the digits before the point only
ParseNumberWhole(t) ==
  (IF t.neg THEN -1 ELSE 1) * 1000 * ValueOfDigits(t.int)

\* json::parse of the text of a number
ParseNumber(t) ==
  (IF t.neg THEN -1 ELSE 1)
    * (1000 * ValueOfDigits(t.int) + ValueOfFraction(t.frac))

\* -------------------------------------------------------------------- PID
\* a PID::step that returns its output without clamping it
ClampOutputMissing(out_min, out_max, output) == output

\* the clamp of the output at the end of PID::step
ClampOutput(out_min, out_max, output) == Max(out_min, Min(out_max, output))

\* an anti-windup test that lets every saturated step integrate
IntegrationAlwaysHelps(tentative_output, current_output, out_min, out_max) ==
  TRUE

\* the anti-windup test of PID::step for a tentative output outside the
\* limits: the output with the integrator as it is lies farther outside
IntegrationHelps(tentative_output, current_output, out_min, out_max) ==
  \/ (tentative_output > out_max /\ current_output > tentative_output)
  \/ (tentative_output < out_min /\ current_output < tentative_output)

\* PID::step on the controller record p; returns the new controller state,
\* the clamped output and the derivative term (last_derivative).
PIDstep(p, measurement, dt, out_min, out_max) ==
  LET error == p.setpoint - measurement
      proportional == (p.kp * error) \div 1000
      tentative_integ ==
        Max(p.integ_min, Min(p.integ_max, p.integ + (error * dt) \div 10000))
      tentative_output == proportional + (p.ki * tentative_integ) \div 1000
      current_output == proportional + (p.ki * p.integ) \div 1000
      integ ==
        IF dt > 0
        THEN IF tentative_output >= out_min /\ tentative_output <= out_max
             THEN tentative_integ
             ELSE IF IntegrationHelps(tentative_output, current_output,
                                      out_min, out_max)
                  THEN tentative_integ
                  ELSE p.integ
        ELSE p.integ
      integral == (p.ki * integ) \div 1000
      derivative ==
        IF dt > 0 /\ p.kd # 0
        THEN (p.kd * (error - p.prev_err) * 10) \div dt
        ELSE 0
      output == proportional + integral + derivative
  IN [pid |-> [p EXCEPT !.integ = integ, !.prev_err = error],
      output |-> ClampOutput(out_min, out_max, output),
      last_derivative |-> derivative]

\* PID::reset
PIDreset(p) == [p EXCEPT !.integ = 0, !.prev_err = 0]

\* a set_setpoint that leaves the previous error as it was
PIDset_setpoint_kicks(p, new_setpoint) == [p EXCEPT !.setpoint = new_setpoint]

\* PID::set_setpoint with reset_derivative = true
PIDset_setpoint(p, new_setpoint) ==
  [p EXCEPT !.prev_err = new_setpoint - (p.setpoint - p.prev_err),
            !.setpoint = new_setpoint]

\* PID::set_integrator_limits
PIDset_integrator_limits(p, min_val, max_val) ==
  [p EXCEPT !.integ_min = min_val, !.integ_max = max_val,
            !.integ = Max(min_val, Min(max_val, p.integ))]

\* ------------------------------------------------------ beam loss monitor
\* The simulated loss rate 1e-8 * (1 + |position| * 0.1) * (current / 1000).
SimulatedLoss(beam_current, beam_position) ==
  (10000 + (IF beam_position < 0 THEN -beam_position ELSE beam_position))
    * beam_current

\* BeamLossMonitor::BeamLossMonitor(id): the monitor as constructed
BeamLossMonitor(id) ==
  [blm_id |-> id, loss_rate |-> 0,
   threshold_warning |-> threshold_warning,
   threshold_abort |-> threshold_abort,
   warning_active |-> FALSE, abort_active |-> FALSE,
   total_measurements |-> 0, warning_count |-> 0, abort_count |-> 0]

\* BeamLossMonitor::set_warning_threshold
set_warning_threshold(b, threshold) ==
  [b EXCEPT !.threshold_warning = threshold]

\* BeamLossMonitor::set_abort_threshold
set_abort_threshold(b, threshold) ==
  [b EXCEPT !.threshold_abort = threshold]

\* a measurement that counts and never reports unsafe
update_measurement_never_unsafe(b, beam_current, beam_position) ==
  [blm |-> [b EXCEPT !.total_measurements = @ + 1,
                     !.loss_rate = SimulatedLoss(beam_current, beam_position)],
   safe |-> TRUE, abort_cb |-> FALSE, warning_cb |-> FALSE]

\* BeamLossMonitor::update_measurement on the monitor record b: the new
\* monitor state, the return value and which callbacks were invoked.
update_measurement(b, beam_current, beam_position) ==
  LET simulated_loss == SimulatedLoss(beam_current, beam_position)
      warning_triggered == simulated_loss > b.threshold_warning
      abort_triggered == simulated_loss > b.threshold_abort
      b0 == [b EXCEPT !.total_measurements = @ + 1,
                      !.loss_rate = simulated_loss]
  IN IF abort_triggered /\ ~b0.abort_active
     THEN [blm |-> [b0 EXCEPT !.abort_active = TRUE, !.abort_count = @ + 1],
           safe |-> FALSE, abort_cb |-> TRUE, warning_cb |-> FALSE]
     ELSE LET b1 == IF warning_triggered /\ ~b0.warning_active
                    THEN [b0 EXCEPT !.warning_active = TRUE,
                                    !.warning_count = @ + 1]
                    ELSE b0
              b2 == IF ~warning_triggered
                    THEN [b1 EXCEPT !.warning_active = FALSE] ELSE b1
              b3 == IF ~abort_triggered
                    THEN [b2 EXCEPT !.abort_active = FALSE] ELSE b2
          IN [blm |-> b3, safe |-> TRUE, abort_cb |-> FALSE,
              warning_cb |-> warning_triggered /\ ~b0.warning_active]

\* a reset that constructs the monitor anew
reset_statistics_reconstructs(b) == BeamLossMonitor("BLM_01")

\* BeamLossMonitor::reset_statistics
reset_statistics(b) ==
  [b EXCEPT !.total_measurements = 0, !.warning_count = 0, !.abort_count = 0,
            !.warning_active = FALSE, !.abort_active = FALSE]

\* ----------------------------------------------- machine protection system
\* The protection state st is [mps, blms, abort_calls, alarms]: the MPS
\* flags and counter, the monitors, the number of beam_abort_callback
\* invocations and the alarm messages of the evaluation under way.

\* MachineProtectionSystem::trigger_beam_abort
trigger_beam_abort(st, reason, source) ==
  [st EXCEPT !.mps.abort_triggered = TRUE,
             !.mps.beam_permit = FALSE,
             !.mps.total_aborts = @ + 1,
             !.abort_calls = @ + 1,
             !.alarms = Append(@, [kind |-> "BEAM ABORT", reason |-> reason,
                                   source |-> source])]

\* MachineProtectionSystem::handle_blm_abort
handle_blm_abort(st, blm_id) ==
  trigger_beam_abort(st, "BLM_THRESHOLD_EXCEEDED", blm_id)

\* a warning handler that aborts the beam
handle_blm_warning_aborts(st, blm_id) ==
  trigger_beam_abort(st, "BLM_WARNING", blm_id)

\* MachineProtectionSystem::handle_blm_warning
handle_blm_warning(st, blm_id) ==
  [st EXCEPT !.alarms = Append(@, [kind |-> "BLM WARNING", reason |-> "loss rate",
                                   source |-> blm_id])]

\* The loop over the monitors in check_safety, from monitor i on.  MonitorAt
\* is one pass of the loop body on the protection state s reached so far.
RECURSIVE CheckBlms(_, _, _, _)
CheckBlms(st, i, beam_current, beam_position) ==
  IF i > Len(BlmIds) THEN [st |-> st, safe |-> TRUE]
  ELSE LET MonitorAt(s) ==
             LET u == update_measurement(s.blms[i], beam_current, beam_position)
                 st1 == [s EXCEPT !.blms[i] = u.blm]
                 st2 == IF u.abort_cb THEN handle_blm_abort(st1, BlmIds[i])
                        ELSE IF u.warning_cb
                             THEN handle_blm_warning(st1, BlmIds[i])
                        ELSE st1
             IN IF ~u.safe
                THEN [st |-> trigger_beam_abort(st2, "BLM_ABORT", BlmIds[i]),
                      safe |-> FALSE]
                ELSE CheckBlms(st2, i + 1, beam_current, beam_position)
       IN CHOOSE res \in { MonitorAt(s) : s \in {st} } : TRUE

\* MachineProtectionSystem::check_safety
check_safety(st, beam_current, beam_position) ==
  IF ~st.mps.beam_permit THEN [st |-> st, safe |-> FALSE]
  ELSE IF st.mps.abort_triggered THEN [st |-> st, safe |-> FALSE]
  ELSE CheckBlms(st, 1, beam_current, beam_position)

\* MachineProtectionSystem::reset_mps
reset_mps(st) ==
  [st EXCEPT !.mps.abort_triggered = FALSE,
             !.mps.beam_permit = TRUE,
             !.blms = [i \in DOMAIN st.blms |-> reset_statistics(st.blms[i])]]

is_beam_permitted(m) == m.beam_permit /\ ~m.abort_triggered
is_abort_active(m) == m.abort_triggered

\* ---------------------------------------------------------------- watchdog
\* Watchdog::Watchdog(budget_ns, warning_ratio), the ratio in percent.  The
\* fields critical_calls and warning_calls count the invocations of the two
\* callbacks; critical_callback and warning_callback tell whether one is set.
WatchdogWith(budget_ns, warning_ratio) ==
  [budget |-> budget_ns,
   warning_threshold |-> (budget_ns * warning_ratio) \div 100,
   tripped |-> FALSE, consecutive_misses |-> 0, total_violations |-> 0,
   total_checks |-> 0, consecutive_warnings |-> 0, total_warnings |-> 0,
   min_execution_ns |-> UINT64_MAX, max_execution_ns |-> 0,
   sum_execution_ns |-> 0,
   critical_consecutive_threshold |-> critical_consecutive_threshold,
   warning_consecutive_threshold |-> warning_consecutive_threshold,
   critical_callback |-> FALSE, warning_callback |-> FALSE,
   critical_calls |-> 0, warning_calls |-> 0]

\* Watchdog::Watchdog(budget_ns) with the default warning ratio 0.8
Watchdog(budget_ns) == WatchdogWith(budget_ns, 80)

\* Watchdog::set_thresholds
set_thresholds(w, critical_threshold, warning_threshold) ==
  [w EXCEPT !.critical_consecutive_threshold = critical_threshold,
            !.warning_consecutive_threshold = warning_threshold]

\* Watchdog::set_critical_callback and Watchdog::set_warning_callback
set_callbacks(w) ==
  [w EXCEPT !.critical_callback = TRUE, !.warning_callback = TRUE]

\* statistics that leave the sum out for a missed deadline
update_statistics_skips_misses(w, exec_ns) ==
  [w EXCEPT !.min_execution_ns = Min(@, exec_ns),
            !.max_execution_ns = Max(@, exec_ns),
            !.sum_execution_ns = IF exec_ns > w.budget THEN @ ELSE @ + exec_ns]

\* Watchdog::update_statistics, called by one thread
update_statistics(w, exec_ns) ==
  [w EXCEPT !.min_execution_ns = IF exec_ns < @ THEN exec_ns ELSE @,
            !.max_execution_ns = IF exec_ns > @ THEN exec_ns ELSE @,
            !.sum_execution_ns = @ + exec_ns]

\* Watchdog::handle_deadline_miss
handle_deadline_miss(w) ==
  LET consecutive == w.consecutive_misses + 1
  IN [w EXCEPT !.total_violations = @ + 1,
               !.consecutive_misses = consecutive,
               !.critical_calls =
                  IF consecutive >= w.critical_consecutive_threshold
                     /\ w.critical_callback
                  THEN @ + 1 ELSE @]

\* Watchdog::handle_warning
handle_warning(w) ==
  LET consecutive == w.consecutive_warnings + 1
  IN [w EXCEPT !.total_warnings = @ + 1,
               !.consecutive_warnings = consecutive,
               !.warning_calls =
                  IF consecutive >= w.warning_consecutive_threshold
                     /\ w.warning_callback
                  THEN @ + 1 ELSE @]

\* a comparison that also counts a duration equal to the budget as a miss
ExceedsOrEquals(execution_ns, limit) == execution_ns >= limit

\* execution_ns > budget, execution_ns > warning_threshold
Exceeds(execution_ns, limit) == execution_ns > limit

\* Watchdog::check for an execution time of execution_ns; the value it
\* returns is the tripped flag it stores
WatchdogCheck(w, execution_ns) ==
  LET w1 == update_statistics([w EXCEPT !.total_checks = @ + 1], execution_ns)
      deadline_missed == Exceeds(execution_ns, w.budget)
      w2 == [w1 EXCEPT !.tripped = deadline_missed]
      w3 == IF deadline_missed THEN handle_deadline_miss(w2)
            ELSE [w2 EXCEPT !.consecutive_misses = 0]
      warning_exceeded == Exceeds(execution_ns, w.warning_threshold)
  IN IF warning_exceeded THEN handle_warning(w3)
     ELSE [w3 EXCEPT !.consecutive_warnings = 0]

\* a reset that clears the cumulative counters as well
WatchdogResetClearsTotals(w) ==
  [w EXCEPT !.tripped = FALSE, !.consecutive_misses = 0,
            !.consecutive_warnings = 0, !.total_violations = 0,
            !.total_warnings = 0]

\* Watchdog::reset
WatchdogReset(w) ==
  [w EXCEPT !.tripped = FALSE, !.consecutive_misses = 0,
            !.consecutive_warnings = 0]

\* Watchdog::set_budget
WatchdogSetBudget(w, new_budget) ==
  [w EXCEPT !.budget = new_budget,
            !.warning_threshold = (new_budget * 8) \div 10]

\* Watchdog::get_min_execution_ns
get_min_execution_ns(w) ==
  IF w.min_execution_ns = UINT64_MAX THEN 0 ELSE w.min_execution_ns

\* Watchdog::is_critical
is_critical(w) == w.consecutive_misses >= w.critical_consecutive_threshold

\* PeriodicClock::set_period
ClockSetPeriod(c, new_period) == [c EXCEPT !.period = new_period]

\* ------------------------------------------------------------ ring buffer
\* An element is the pair of words [id, check] of the integrity test's
\* TestData, whose is_valid() holds when the two agree; T() has both 0.
TestData(i) == [id |-> i, check |-> i]
is_valid(data) == data.check = data.id

\* RingBuffer::RingBuffer(n): n default-constructed elements, head 0.  The
\* model numbers the slots from 1, so that slot i of the code is buf[i + 1].
RingBuffer(n) == [buf |-> [i \in 1..n |-> TestData(0)], head |-> 0]

\* RingBuffer::size
size(rb) == Min(rb.head, Len(rb.buf))

\* the slot for_each visits in its k-th call of f (k from 0), for the head
\* it loaded
VisitedSlot(current_head, buffer_size, k) ==
  IF current_head < buffer_size THEN k
  ELSE ((current_head % buffer_size) + k) % buffer_size

\* the producer threads of the tests, and the threads as they start: every
\* thread outside the buffer's functions, nothing pushed, nothing visited
Producers == {1, 2}
RingThreads(n) ==
  [nprod |-> n,
   pc |-> [t \in Producers |-> "idle"],
   current_head |-> [t \in Producers |-> 0],
   v |-> [t \in Producers |-> TestData(0)],
   pushed |-> [t \in Producers |-> 0],
   cpc |-> "idle", chead |-> 0, k |-> 0, visited |-> <<>>, rounds |-> 0]

\* ------------------------------------------------------ command endpoint
\* zmq_recv(rep, buf, len, 0) of a message of msg_len bytes, or of none
\* (msg_len = -1): it stores at most len bytes and returns the length of
\* the whole message, or -1.
zmq_recv(msg_len, len) ==
  [n |-> msg_len, stored |-> IF msg_len < 0 THEN 0 ELSE Min(msg_len, len)]

\* a recv that takes no more than was stored
recv_bounded(msg_len) ==
  LET got == zmq_recv(msg_len, BufSize)
  IN [size |-> got.stored, stored |-> got.stored, beyond |-> 0]

\* ControlRep::recv: std::string(buf, buf + (n > 0 ? n : 0)).  The result is
\* [size, stored, beyond]: the length of the string, how many of its bytes
\* are bytes zmq_recv stored in buf, and how many were read past buf's end.
recv(msg_len) ==
  LET got == zmq_recv(msg_len, BufSize)
      taken == IF got.n > 0 THEN got.n ELSE 0
  IN [size |-> taken, stored |-> Min(taken, got.stored),
      beyond |-> Max(0, taken - BufSize)]

\* what reading past the end of buf can do: deliver whatever the stack
\* holds there, or fault
Overruns == {"garbage", "fault"}

\* ---------------------------------------------------------- periodic clock
\* A clock with its target is [period, next], times in ns.

\* PeriodicClock::PeriodicClock(p), constructed at time at
PeriodicClock(p, at) == [period |-> p, next |-> at + p]

\* std::this_thread::sleep_until(next) called at time at, the thread waking
\* late by late: a target in the past returns at once
sleep_until(target, at, late) == IF target <= at THEN at ELSE target + late

\* a wait_next that re-bases the target on the time of the wake
wait_next_skips_ticks(c, wake) == [c EXCEPT !.next = wake + c.period]

\* PeriodicClock::wait_next after the sleep, which ended at wake
wait_next(c, wake) == [c EXCEPT !.next = c.next + c.period]

\* a set_period that leaves the target where it was
set_period_keeps_target(c, new_period, at) == [c EXCEPT !.period = new_period]

\* PeriodicClock::set_period called at time at
set_period(c, new_period, at) ==
  [c EXCEPT !.period = new_period, !.next = at + new_period]

\* ------------------------------------------------------------------- state
VARIABLES
  impl,             \* which RTLoop runs: "struct" (with MPS) or "class" (loop.hpp)
  pc,               \* position of the loop thread inside run()
  running,          \* RTLoop::running
  hz,               \* RTLoop::hz / loop_frequency_
  period_ns,        \* the local period_ns of run()
  control_enabled,  \* RTLoop::control_enabled
  emergency_stop,   \* RTLoop::emergency_stop
  loop_count,       \* RTLoop::loop_count
  deadline_misses,  \* RTLoop::deadline_misses
  pid,              \* the PID controller
  prot,             \* the machine protection system and its monitors
  magnet,           \* the current commanded to the magnet
  bpm_offset,       \* BPM::offset / the beam position x of the BPM
  pos,              \* local: position read in this iteration
  intensity,        \* local: intensity read in this iteration
  clk,              \* the PeriodicClock of run()
  wd,               \* the Watchdog of run()
  telemetry,        \* records published in the iteration under way
  pending,          \* requests queued at the command endpoint
  awaiting,         \* the endpoint has delivered a request and owes its reply
  cmd,              \* local: the request received in this iteration
  r,                \* local: the reply computed for it
  recvs,            \* requests received in the iteration under way
  ticks,            \* iterations started
  sent,             \* requests sent by the clients
  estop_cmd,        \* an emergency_stop command was handled, and no
                    \* recommission command since
  published,        \* the iterations whose telemetry record was sent, in
                    \* the order of sending
  u,                \* local: the current commanded in this iteration
  deadline_missed,  \* local: what wd.check returned in this iteration
  uw,               \* a Watchdog exercised on its own
  ratio,            \* the warning ratio uw was constructed with, in percent
  hist,             \* the calls made on uw, in order
  feed,             \* durations still to be checked by a scripted run
  cw,               \* a Watchdog shared by several threads
  tpc,              \* where each thread stands inside check
  tl,               \* the locals of each thread's call of check
  started,          \* how many calls were started with each duration
  reported,         \* how many calls have returned true (a miss)
  seen,             \* the statistics a reader thread last read
  kclk,             \* a PeriodicClock exercised on its own
  now,              \* the time of the steady clock, in ns
  khist,            \* the calls made on kclk, in order
  upid,             \* a PID exercised on its own
  plog,             \* the calls made on upid, in order
  ublm,             \* a BeamLossMonitor exercised on its own
  blog,             \* the calls made on ublm, in order
  ring,             \* a RingBuffer shared by producer and consumer threads
  rthr,             \* where those threads stand, and their locals
  rx                \* the calls of recv made on a ControlRep, in order

vars == <<impl, pc, running, hz, period_ns, control_enabled, emergency_stop,
          loop_count, deadline_misses, pid, prot, magnet, bpm_offset, pos,
          intensity, clk, wd, telemetry, pending, awaiting, cmd, r, recvs,
          ticks, sent, estop_cmd, published, u, deadline_missed, uw, ratio,
          hist, feed, cw, tpc, tl, started, reported, seen, kclk, now,
          khist, upid, plog, ublm, blog, ring, rthr, rx>>

\* the clock and the PID exercised on their own
partVars == <<kclk, now, khist, upid, plog>>

\* the monitor, the ring buffer and the endpoint exercised on their own
benchVars == <<ublm, blog, ring, rthr, rx>>

\* the variables of the objects exercised on their own
unitVars == <<uw, ratio, hist, feed, cw, tpc, tl, started, reported, seen,
              partVars, benchVars>>

\* what the sensors can deliver (the BPM signal before the offset, and the
\* BIC reading), and the execution times an iteration can take
\* <<signal, intensity>>: a centred beam of nominal intensity, the far
\* off-centre beam of 5e4 counts, the same beam at 6e4 counts (above the
\* warning threshold) and at 1e6 counts (above the abort threshold)
Readings == {<<0, 10>>, <<10000, 50>>, <<10000, 60>>, <<10000, 1000>>}
Durations == {100000, 3000000}

\* the period of a frequency: (long long)(1e9 / hz)
PeriodOf(f) == 1000000000 \div f

\* a monitor constructed with the default identifier
BlmInit == BeamLossMonitor("BLM_01")

\* the state of either loop when run() is entered
LoopInit ==
  /\ impl \in {"struct", "class"}
  /\ pc = "top"
  /\ running = TRUE
  /\ hz = 1000
  /\ period_ns = PeriodOf(1000)
  /\ control_enabled = TRUE
  /\ emergency_stop = FALSE
  /\ loop_count = 0
  /\ deadline_misses = 0
  /\ pid = [kp |-> 600, ki |-> 50, kd |-> 0, setpoint |-> 0, integ |-> 0,
            prev_err |-> 0,
            integ_min |-> IF impl = "class" THEN -10000 ELSE -1000000000,
            integ_max |-> IF impl = "class" THEN 10000 ELSE 1000000000]
  /\ prot = [mps |-> [beam_permit |-> TRUE, abort_triggered |-> FALSE,
                      total_aborts |-> 0],
             blms |-> [i \in 1..Len(BlmIds) |-> BeamLossMonitor(BlmIds[i])],
             abort_calls |-> 0, alarms |-> <<>>]
  /\ magnet = 0
  /\ bpm_offset = 0
  /\ pos = 0
  /\ intensity = 0
  /\ clk = [period |-> PeriodOf(1000)]
  /\ wd = Watchdog(PeriodOf(1000))
  /\ telemetry = <<>>
  /\ pending = <<>>
  /\ awaiting = FALSE
  /\ cmd = <<>>
  /\ r = <<>>
  /\ recvs = 0
  /\ ticks = 0
  /\ sent = 0
  /\ estop_cmd = FALSE
  /\ published = <<>>
  /\ u = 0
  /\ deadline_missed = FALSE

\* no Watchdog is exercised on its own
UnitIdle ==
  /\ uw = Watchdog(PeriodOf(1000))
  /\ ratio = 80
  /\ hist = <<>>
  /\ feed = <<>>

\* the threads that call check on the shared Watchdog
Threads == {"t1", "t2"}

\* the durations they check: below and above the budget
ThreadDurations == {50000, 150000}

\* a thread outside check, with the number of calls it has made
ThreadIdle == [d |-> 0, current_min |-> 0, current_max |-> 0,
               missed |-> FALSE, made |-> 0]

\* no Watchdog is shared by threads
SharedIdle ==
  /\ cw = Watchdog(PeriodOf(1000))
  /\ tpc = [t \in Threads |-> "idle"]
  /\ tl = [t \in Threads |-> ThreadIdle]
  /\ started = [d \in ThreadDurations |-> 0]
  /\ reported = 0
  /\ seen = [total_checks |-> 0, total_violations |-> 0]

\* the PID as constructed
PID == [kp |-> 100, ki |-> 0, kd |-> 0, setpoint |-> 0, integ |-> 0,
        prev_err |-> 0, integ_min |-> -1000000000, integ_max |-> 1000000000]

\* no clock and no PID is exercised on its own
PartsIdle ==
  /\ kclk = PeriodicClock(PeriodOf(1000), 0)
  /\ now = 0
  /\ khist = <<>>
  /\ upid = PID
  /\ plog = <<>>

\* no monitor, ring buffer or endpoint is exercised on its own
BenchIdle ==
  /\ ublm = BlmInit
  /\ blog = <<>>
  /\ ring = RingBuffer(RingCapacity)
  /\ rthr = RingThreads(1)
  /\ rx = <<>>

Init == LoopInit /\ UnitIdle /\ SharedIdle /\ PartsIdle /\ BenchIdle

\* ------------------------------------------------------ command handling
\* The part of the loop's state a command can touch, as one record.
LoopState ==
  [pid |-> pid, hz |-> hz, period_ns |-> period_ns, magnet |-> magnet,
   bpm_offset |-> bpm_offset, emergency_stop |-> emergency_stop,
   control_enabled |-> control_enabled, prot |-> prot, running |-> running,
   loop_count |-> loop_count, deadline_misses |-> deadline_misses]

OkTrue == [ok |-> TRUE]

\* a handler that answers a rejected request with ok:true
OkFalseAnswersTrue == [ok |-> TRUE]

OkFalse == [ok |-> FALSE]
Returned(L, reply) == [L |-> L, r |-> <<reply>>, thrown |-> FALSE]
Thrown(L) == [L |-> L, r |-> <<>>, thrown |-> TRUE]

\* the set_pid branch of RTLoop::handle_cmd: the three gains are converted
\* and assigned one after the other
SetPid(L, j) ==
  LET a == ValueNum(j, "kp", L.pid.kp)
      L1 == [L EXCEPT !.pid.kp = a.v]
      b == ValueNum(j, "ki", L1.pid.ki)
      L2 == [L1 EXCEPT !.pid.ki = b.v]
      c == ValueNum(j, "kd", L2.pid.kd)
      L3 == [L2 EXCEPT !.pid.kd = c.v]
  IN IF a.thrown THEN Thrown(L)
     ELSE IF b.thrown THEN Thrown(L1)
     ELSE IF c.thrown THEN Thrown(L2)
     ELSE Returned(L3, OkTrue)

\* a set_freq that takes the requested frequency as it comes
SetFreqUnclamped(L, j) ==
  LET a == ValueNum(j, "hz", L.hz)
  IN IF a.thrown THEN Thrown(L)
     ELSE Returned([L EXCEPT !.hz = a.v, !.period_ns = PeriodOf(a.v)], OkTrue)

\* the set_freq branch of RTLoop::handle_cmd
SetFreq(L, j) ==
  LET a == ValueNum(j, "hz", L.hz)
      new_hz == Max(10, Min(2000, a.v))
  IN IF a.thrown THEN Thrown(L)
     ELSE Returned([L EXCEPT !.hz = new_hz, !.period_ns = PeriodOf(new_hz)],
                   OkTrue)

\* the set_setpoint branch of RTLoop::handle_cmd
SetSetpoint(L, j) ==
  LET a == ValueNum(j, "sp", 0)
  IN IF a.thrown THEN Thrown(L)
     ELSE Returned([L EXCEPT !.pid.setpoint = a.v], OkTrue)

\* a recommission that leaves the protection system as it is
RecommissionKeepsLatch(L) ==
  Returned([L EXCEPT !.pid.integ = 0, !.pid.prev_err = 0, !.magnet = 0,
                     !.bpm_offset = 0, !.emergency_stop = FALSE,
                     !.control_enabled = TRUE],
           OkTrue)

\* the recommission branch of RTLoop::handle_cmd
Recommission(L) ==
  Returned([L EXCEPT !.pid.integ = 0, !.pid.prev_err = 0, !.magnet = 0,
                     !.bpm_offset = 0, !.emergency_stop = FALSE,
                     !.control_enabled = TRUE, !.prot = reset_mps(@)],
           OkTrue)

\* the emergency_stop branch of RTLoop::handle_cmd
EmergencyStop(L) ==
  Returned([L EXCEPT !.emergency_stop = TRUE, !.control_enabled = FALSE,
                     !.magnet = 0],
           OkTrue)

\* the enable_control branch of RTLoop::handle_cmd
EnableControl(L, j) ==
  LET a == ValueBool(j, "enable", TRUE)
  IN IF a.thrown THEN Thrown(L)
     ELSE IF ~L.emergency_stop
     THEN Returned([L EXCEPT !.control_enabled = a.v,
                             !.magnet = IF ~a.v THEN 0 ELSE @],
                   OkTrue)
     ELSE Returned(L, OkTrue)

\* the get_status branch of RTLoop::handle_cmd
GetStatus(L) ==
  Returned(L, [ok |-> TRUE, loop_frequency |-> L.hz,
               loop_count |-> L.loop_count,
               deadline_misses |-> L.deadline_misses,
               control_enabled |-> L.control_enabled,
               emergency_stop |-> L.emergency_stop,
               mps_safe |-> is_beam_permitted(L.prot.mps),
               mps_abort_count |-> L.prot.mps.total_aborts,
               pid_gains |-> [kp |-> L.pid.kp, ki |-> L.pid.ki, kd |-> L.pid.kd],
               setpoint |-> L.pid.setpoint])

\* RTLoop::handle_cmd after json::parse has given j
handle_cmd_parsed(L, j) ==
  IF ~is_object(j) THEN Returned(L, OkFalse)
  ELSE IF CmdIs(j, "set_pid") THEN SetPid(L, j)
  ELSE IF CmdIs(j, "set_freq") THEN SetFreq(L, j)
  ELSE IF CmdIs(j, "set_setpoint") THEN SetSetpoint(L, j)
  ELSE IF CmdIs(j, "recommission") THEN Recommission(L)
  ELSE IF CmdIs(j, "emergency_stop") THEN EmergencyStop(L)
  ELSE IF CmdIs(j, "enable_control") THEN EnableControl(L, j)
  ELSE IF CmdIs(j, "get_status") THEN GetStatus(L)
  ELSE Returned(L, OkFalse)

\* RTLoop::handle_cmd of the struct RTLoop: no exception is caught here
handle_cmd(L, s) == handle_cmd_parsed(L, Parse(s))

\* ---- the class RTLoop of control/loop.hpp
\* Parts of its ControlAPI, Limits and responder the loop calls.
clamp_frequency(f) == Max(10, Min(2000, f))
clamp_pid_gains(kp, ki, kd) == <<kp, ki, kd>>
clamp_magnet_current(v) == Max(magnet_min, Min(magnet_max, v))
api_emergency_stop(L) == [L EXCEPT !.magnet = 0]

ErrorReply(e) == [ok |-> FALSE, error |-> e]
MessageReply(m) == [ok |-> TRUE, message |-> m]

\* the get_status branch of RTLoop::handle_command
StatusOfClass(L) ==
  [ok |-> TRUE, loop_frequency |-> L.hz, loop_count |-> L.loop_count,
   deadline_misses |-> L.deadline_misses,
   control_enabled |-> L.control_enabled,
   emergency_stop |-> L.emergency_stop,
   pid_gains |-> [kp |-> L.pid.kp, ki |-> L.pid.ki, kd |-> L.pid.kd],
   setpoint |-> L.pid.setpoint]

\* the recommission branch of RTLoop::handle_command
RecommissionOfClass(L) ==
  LET L1 == api_emergency_stop(
              [L EXCEPT !.pid = [PIDreset(@) EXCEPT !.setpoint = 0]])
  IN [L1 EXCEPT !.bpm_offset = 0, !.emergency_stop = FALSE,
                !.control_enabled = TRUE, !.deadline_misses = 0,
                !.loop_count = 0]

\* RTLoop::handle_command after json::parse has given command, or has
\* thrown (no value)
handle_command_parsed(L, command) ==
     IF command.t = "discarded"
     THEN Returned(L, ErrorReply("JSON parse error"))
     ELSE IF ~is_object(command) \/ ~contains(command, "cmd")
     THEN Returned(L, ErrorReply("Invalid command format"))
     ELSE IF command.m["cmd"].t # "str"
     THEN Returned(L, ErrorReply("JSON parse error"))
     ELSE IF CmdIs(command, "set_pid")
     THEN LET a == ValueNum(command, "kp", L.pid.kp)
              b == ValueNum(command, "ki", L.pid.ki)
              c == ValueNum(command, "kd", L.pid.kd)
              g == clamp_pid_gains(a.v, b.v, c.v)
          IN IF a.thrown \/ b.thrown \/ c.thrown
             THEN Returned(L, ErrorReply("JSON parse error"))
             ELSE Returned([L EXCEPT !.pid.kp = g[1], !.pid.ki = g[2],
                                     !.pid.kd = g[3]],
                           MessageReply("PID gains updated"))
     ELSE IF CmdIs(command, "set_freq")
     THEN LET a == ValueNum(command, "hz", L.hz)
          IN IF a.thrown THEN Returned(L, ErrorReply("JSON parse error"))
             ELSE Returned([L EXCEPT !.hz = clamp_frequency(a.v)],
                           MessageReply("Frequency updated"))
     ELSE IF CmdIs(command, "set_setpoint")
     THEN LET a == ValueNum(command, "sp", 0)
          IN IF a.thrown THEN Returned(L, ErrorReply("JSON parse error"))
             ELSE Returned([L EXCEPT !.pid = PIDset_setpoint(@, a.v)],
                           MessageReply("Setpoint updated"))
     ELSE IF CmdIs(command, "recommission")
     THEN Returned(RecommissionOfClass(L), MessageReply("System recommissioned"))
     ELSE IF CmdIs(command, "emergency_stop")
     THEN Returned(api_emergency_stop([L EXCEPT !.emergency_stop = TRUE]),
                   MessageReply("Emergency stop activated"))
     ELSE IF CmdIs(command, "enable_control")
     THEN LET a == ValueBool(command, "enable", TRUE)
              L1 == [L EXCEPT !.control_enabled = a.v]
          IN IF a.thrown THEN Returned(L, ErrorReply("JSON parse error"))
             ELSE Returned(IF ~a.v THEN api_emergency_stop(L1) ELSE L1,
                           MessageReply("Control enable updated"))
     ELSE IF CmdIs(command, "get_status")
     THEN Returned(L, StatusOfClass(L))
     ELSE IF CmdIs(command, "stop")
     THEN Returned([L EXCEPT !.running = FALSE],
                   MessageReply("Stopping control loop"))
     ELSE Returned(L, ErrorReply("Unknown command"))

\* RTLoop::handle_command: every json exception is caught and answered
handle_command(L, s) == handle_command_parsed(L, Parse(s))

\* ---------------------------------------------------------------- the loop
\* dt = duration<double>(period_ns).count(), in 1e-4 s
Dt(p_ns) == p_ns \div 100000

\* the beam abort callback the struct RTLoop registers with the MPS
beam_abort_callback(L) ==
  [L EXCEPT !.emergency_stop = TRUE, !.control_enabled = FALSE, !.magnet = 0]

\* a control phase that forgets the control-enabled flag
ControlActiveIgnoresEnable(enabled, estop) == ~estop

\* the condition under which the control phase runs the PID
ControlActive(enabled, estop) == enabled /\ ~estop

\* the fields of LoopState written back to the variables
Store(L) ==
  /\ pid' = L.pid
  /\ hz' = L.hz
  /\ period_ns' = L.period_ns
  /\ magnet' = L.magnet
  /\ bpm_offset' = L.bpm_offset
  /\ emergency_stop' = L.emergency_stop
  /\ control_enabled' = L.control_enabled
  /\ prot' = L.prot
  /\ running' = L.running
  /\ loop_count' = L.loop_count
  /\ deadline_misses' = L.deadline_misses

loopVars == <<pid, hz, period_ns, magnet, bpm_offset, emergency_stop,
              control_enabled, prot, running, loop_count, deadline_misses>>
envVars == <<pending, sent>>
repVars == <<awaiting, cmd, r, recvs>>
ghostVars == <<ticks, estop_cmd>>

\* the record of emergency_stop and recommission commands after handling s
EstopCmdAfter(s) ==
  IF s = P_emergency_stop THEN TRUE
  ELSE IF s = P_recommission THEN FALSE
  ELSE estop_cmd

\* a loop test that does not read the flag
LoopTestIgnoresFlag(flag) == TRUE

\* the loop test: running.load(std::memory_order_relaxed)
LoopTest(flag) == flag

\* while (running.load()): one more iteration starts
BeginIteration ==
  /\ pc = "top"
  /\ LoopTest(running)
  /\ ticks < MaxTicks
  /\ pc' = "sense"
  /\ ticks' = ticks + 1
  /\ recvs' = 0
  /\ telemetry' = <<>>
  /\ UNCHANGED <<unitVars, published, u, deadline_missed,
                 impl, loopVars, pos, intensity, clk, wd, envVars, awaiting,
                 cmd, r, estop_cmd>>

\* while (running.load()) finds the flag cleared
ExitLoop ==
  /\ pc = "top"
  /\ ~LoopTest(running)
  /\ pc' = IF impl = "class" THEN "cleanup" ELSE "done"
  /\ UNCHANGED <<unitVars, published, u, deadline_missed,
                 impl, loopVars, pos, intensity, clk, wd, telemetry, envVars,
                 repVars, ghostVars>>

\* read_pos / read_intensity
ReadSensors ==
  /\ pc = "sense"
  /\ \E rd \in Readings :
       /\ pos' = rd[1] + bpm_offset
       /\ intensity' = rd[2]
  /\ pc' = IF impl = "struct" THEN "mps" ELSE "control"
  /\ UNCHANGED <<unitVars, published, u, deadline_missed,
                 impl, loopVars, clk, wd, telemetry, envVars, repVars, ghostVars>>

\* struct RTLoop: mps.check_safety and the forced emergency stop
CheckSafety ==
  /\ pc = "mps"
  /\ impl = "struct"
  /\ LET res == check_safety([prot EXCEPT !.alarms = <<>>], intensity, pos)
         L0 == [LoopState EXCEPT !.prot = res.st]
         L1 == IF res.st.abort_calls > prot.abort_calls
               THEN beam_abort_callback(L0) ELSE L0
         L2 == IF ~res.safe
               THEN [L1 EXCEPT !.emergency_stop = TRUE,
                               !.control_enabled = FALSE]
               ELSE L1
     IN Store(L2)
  /\ pc' = "control"
  /\ UNCHANGED <<unitVars, published, u, deadline_missed,
                 impl, pos, intensity, clk, wd, telemetry, envVars, repVars,
                 ghostVars>>

\* struct RTLoop: the control phase
Control ==
  /\ pc = "control"
  /\ impl = "struct"
  /\ IF ControlActive(control_enabled, emergency_stop)
     THEN LET st == PIDstep(pid, pos, Dt(period_ns), magnet_min, magnet_max)
          IN /\ pid' = st.pid
             /\ u' = st.output
             /\ magnet' = st.output
             /\ bpm_offset' = (-4 * st.output) \div 10
     ELSE /\ u' = 0
          /\ magnet' = 0
          /\ UNCHANGED <<pid, bpm_offset>>
  /\ pc' = "watchdog"
  /\ UNCHANGED <<unitVars, published, deadline_missed,
                 impl, hz, period_ns, emergency_stop, control_enabled, prot,
                 running, loop_count, deadline_misses, pos, intensity, clk, wd,
                 telemetry, envVars, repVars, ghostVars>>

\* struct RTLoop: wd.check, the deadline miss counter and the cycle counter
CheckDeadline ==
  /\ pc = "watchdog"
  /\ impl = "struct"
  /\ \E d \in Durations :
       /\ wd' = WatchdogCheck(wd, d)
       /\ deadline_missed' = wd'.tripped
       /\ deadline_misses' = IF d > wd.budget THEN deadline_misses + 1
                             ELSE deadline_misses
  /\ loop_count' = loop_count + 1
  /\ pc' = "publish"
  /\ UNCHANGED <<unitVars, published, u,
                 impl, pid, hz, period_ns, magnet, bpm_offset, emergency_stop,
                 control_enabled, prot, running, pos, intensity, clk, telemetry,
                 envVars, repVars, ghostVars>>

\* a publisher that sends every message twice
sendTwice(log, item) == Append(Append(log, item), item)

\* TelemetryPub::send: one more message on the telemetry topic
send(log, item) == Append(log, item)

\* a deadline_miss field that stays 1 once any iteration has missed
DeadlineMissFieldSticky == IF deadline_misses > 0 THEN 1 ELSE 0

\* the deadline_miss field of a record: wd.is_tripped() ? 1 : 0
DeadlineMissField == IF wd.tripped THEN 1 ELSE 0

\* struct RTLoop: the telemetry record
Publish ==
  /\ pc = "publish"
  /\ impl = "struct"
  /\ telemetry' = send(telemetry,
       [pos |-> pos, intensity |-> intensity, mag |-> magnet,
        deadline_miss |-> DeadlineMissField,
        mps_safe |-> is_beam_permitted(prot.mps),
        mps_abort |-> is_abort_active(prot.mps)])
  /\ published' = send(published, ticks)
  /\ pc' = "poll"
  /\ UNCHANGED <<unitVars, u, deadline_missed,
                 impl, loopVars, pos, intensity, clk, wd, envVars, repVars,
                 ghostVars>>

\* struct RTLoop: zmq_poll reports a request and rep.recv() takes it
Receive ==
  /\ pc = "poll"
  /\ impl = "struct"
  /\ pending # <<>>
  /\ cmd' = <<Head(pending)>>
  /\ pending' = Tail(pending)
  /\ awaiting' = TRUE
  /\ recvs' = recvs + 1
  /\ pc' = "handle"
  /\ UNCHANGED <<unitVars, published, u, deadline_missed,
                 impl, loopVars, pos, intensity, clk, wd, telemetry, sent, r,
                 ghostVars>>

\* the poll finds no request
NoRequest ==
  /\ pc = "poll"
  /\ pending = <<>>
  /\ pc' = "wait"
  /\ UNCHANGED <<unitVars, published, u, deadline_missed,
                 impl, loopVars, pos, intensity, clk, wd, telemetry, envVars,
                 repVars, ghostVars>>

\* struct RTLoop: handle_cmd(cmd, period_ns); an exception leaves run()
Handle ==
  /\ pc = "handle"
  /\ impl = "struct"
  /\ LET o == handle_cmd(LoopState, cmd[1])
     IN /\ Store(o.L)
        /\ r' = o.r
        /\ pc' = IF o.thrown THEN "crashed" ELSE "reply"
  /\ estop_cmd' = EstopCmdAfter(cmd[1])
  /\ UNCHANGED <<unitVars, published, u, deadline_missed,
                 impl, pos, intensity, clk, wd, telemetry, envVars, awaiting,
                 cmd, recvs, ticks>>

\* struct RTLoop: rep.reply(r)
Reply ==
  /\ pc = "reply"
  /\ impl = "struct"
  /\ awaiting' = FALSE
  /\ pc' = "wait"
  /\ UNCHANGED <<unitVars, published, u, deadline_missed,
                 impl, loopVars, pos, intensity, clk, wd, telemetry, envVars,
                 cmd, r, recvs, ghostVars>>

\* struct RTLoop: clk.wait_next(); wd.reset(); the iteration's locals end
Wait ==
  /\ pc = "wait"
  /\ impl = "struct"
  /\ wd' = WatchdogReset(wd)
  /\ cmd' = <<>>
  /\ r' = <<>>
  /\ u' = 0
  /\ deadline_missed' = FALSE
  /\ pos' = 0
  /\ intensity' = 0
  /\ pc' = "top"
  /\ UNCHANGED <<unitVars, published,
                 impl, loopVars, clk, telemetry, envVars, awaiting, recvs,
                 ghostVars>>

\* ---- the class RTLoop of control/loop.hpp
\* the control phase
ControlOfClass ==
  /\ pc = "control"
  /\ impl = "class"
  /\ IF ControlActive(control_enabled, emergency_stop)
     THEN LET st == PIDstep(pid, pos, Dt(period_ns), magnet_min, magnet_max)
              magnet_output == clamp_magnet_current(st.output)
          IN /\ pid' = st.pid
             /\ u' = magnet_output
             /\ magnet' = magnet_output
             /\ bpm_offset' = bpm_offset - (4 * magnet_output) \div 10
     ELSE /\ u' = 0
          /\ magnet' = 0
          /\ UNCHANGED <<pid, bpm_offset>>
  /\ pc' = "watchdog"
  /\ UNCHANGED <<unitVars, published, deadline_missed,
                 impl, hz, period_ns, emergency_stop, control_enabled, prot,
                 running, loop_count, deadline_misses, pos, intensity, clk, wd,
                 telemetry, envVars, repVars, ghostVars>>

\* watchdog.check(loop_start, loop_end)
CheckDeadlineOfClass ==
  /\ pc = "watchdog"
  /\ impl = "class"
  /\ \E d \in Durations :
       /\ wd' = WatchdogCheck(wd, d)
       /\ deadline_missed' = wd'.tripped
  /\ pc' = "publish"
  /\ UNCHANGED <<unitVars, published, u,
                 impl, loopVars, pos, intensity, clk, telemetry, envVars,
                 repVars, ghostVars>>

\* the telemetry record, then the deadline miss count and the automatic
\* frequency reduction on every tenth miss
PublishOfClass ==
  /\ pc = "publish"
  /\ impl = "class"
  /\ telemetry' = send(telemetry,
       [pos |-> pos, intensity |-> intensity, mag |-> magnet,
        deadline_miss |-> DeadlineMissField,
        control_enabled |-> control_enabled,
        emergency_stop |-> emergency_stop])
  /\ published' = send(published, ticks)
  /\ LET misses == IF wd.tripped THEN deadline_misses + 1 ELSE deadline_misses
         new_freq == clamp_frequency((hz * 8) \div 10)
         reduce == wd.tripped /\ misses % 10 = 0 /\ new_freq # hz
     IN /\ deadline_misses' = misses
        /\ hz' = IF reduce THEN new_freq ELSE hz
        /\ period_ns' = IF reduce THEN PeriodOf(new_freq) ELSE period_ns
        /\ clk' = IF reduce THEN ClockSetPeriod(clk, PeriodOf(new_freq)) ELSE clk
        /\ wd' = IF reduce THEN WatchdogSetBudget(wd, PeriodOf(new_freq)) ELSE wd
  /\ pc' = "poll"
  /\ UNCHANGED <<unitVars, u, deadline_missed,
                 impl, pid, magnet, bpm_offset, emergency_stop, control_enabled,
                 prot, running, loop_count, pos, intensity, envVars, repVars,
                 ghostVars>>

\* has_request() holds and recv_timeout takes the request; an empty command
\* is neither handled nor answered
ReceiveOfClass ==
  /\ pc = "poll"
  /\ impl = "class"
  /\ pending # <<>>
  /\ cmd' = <<Head(pending)>>
  /\ pending' = Tail(pending)
  /\ awaiting' = TRUE
  /\ recvs' = recvs + 1
  /\ pc' = IF Head(pending) # "" THEN "handle" ELSE "wait"
  /\ UNCHANGED <<unitVars, published, u, deadline_missed,
                 impl, loopVars, pos, intensity, clk, wd, telemetry, sent, r,
                 ghostVars>>

\* handle_command(command)
HandleOfClass ==
  /\ pc = "handle"
  /\ impl = "class"
  /\ LET o == handle_command(LoopState, cmd[1])
     IN /\ Store(o.L)
        /\ r' = o.r
  /\ pc' = "reply"
  /\ estop_cmd' = EstopCmdAfter(cmd[1])
  /\ UNCHANGED <<unitVars, published, u, deadline_missed,
                 impl, pos, intensity, clk, wd, telemetry, envVars, awaiting,
                 cmd, recvs, ticks>>

\* control_rep.reply(response), then the period of a changed frequency is
\* given to the clock and to the watchdog
ReplyOfClass ==
  /\ pc = "reply"
  /\ impl = "class"
  /\ awaiting' = FALSE
  /\ LET new_period_ns == PeriodOf(hz)
     IN IF new_period_ns # period_ns
        THEN /\ period_ns' = new_period_ns
             /\ clk' = ClockSetPeriod(clk, new_period_ns)
             /\ wd' = WatchdogSetBudget(wd, new_period_ns)
        ELSE UNCHANGED <<period_ns, clk, wd>>
  /\ pc' = "wait"
  /\ UNCHANGED <<unitVars, published, u, deadline_missed,
                 impl, pid, hz, magnet, bpm_offset, emergency_stop,
                 control_enabled, prot, running, loop_count, deadline_misses,
                 pos, intensity, telemetry, envVars, cmd, r, recvs, ghostVars>>

\* loop_count_.fetch_add(1); clock.wait_next(); watchdog.reset()
WaitOfClass ==
  /\ pc = "wait"
  /\ impl = "class"
  /\ loop_count' = loop_count + 1
  /\ wd' = WatchdogReset(wd)
  /\ cmd' = <<>>
  /\ r' = <<>>
  /\ u' = 0
  /\ deadline_missed' = FALSE
  /\ pos' = 0
  /\ intensity' = 0
  /\ pc' = "top"
  /\ UNCHANGED <<unitVars, published,
                 impl, pid, hz, period_ns, magnet, bpm_offset, emergency_stop,
                 control_enabled, prot, running, deadline_misses, clk,
                 telemetry, envVars, awaiting, recvs, ghostVars>>

\* the final cleanup after the loop: api_.emergency_stop()
Cleanup ==
  /\ pc = "cleanup"
  /\ impl = "class"
  /\ Store(api_emergency_stop(LoopState))
  /\ pc' = "done"
  /\ UNCHANGED <<unitVars, published, u, deadline_missed,
                 impl, pos, intensity, clk, wd, telemetry, envVars, repVars,
                 ghostVars>>

\* ---- the environment
\* a client sends a request to the command endpoint.  The loop looks at the
\* endpoint only in its poll, so a request that arrives earlier in the
\* iteration is taken as arriving right before the poll.
ClientSend ==
  /\ pc = "poll"
  /\ sent < MaxSends
  /\ Len(pending) < MaxPending
  /\ \E p \in Payloads : pending' = Append(pending, p)
  /\ sent' = sent + 1
  /\ UNCHANGED <<unitVars, published, u, deadline_missed,
                 impl, pc, loopVars, pos, intensity, clk, wd, telemetry,
                 repVars, ghostVars>>

\* an external actor clears the running flag (RTLoop::stop).  The loop reads
\* the flag only in its loop test, so the flag is cleared while the loop is
\* about to sleep or about to test it.
Stop ==
  /\ running
  /\ pc \in {"top", "wait"}
  /\ running' = FALSE
  /\ UNCHANGED <<unitVars, published, u, deadline_missed,
                 impl, pc, pid, hz, period_ns, magnet, bpm_offset,
                 emergency_stop, control_enabled, prot, loop_count,
                 deadline_misses, pos, intensity, clk, wd, telemetry, envVars,
                 repVars, ghostVars>>

Next ==
  \/ BeginIteration
  \/ ExitLoop
  \/ ReadSensors
  \/ CheckSafety
  \/ Control
  \/ CheckDeadline
  \/ Publish
  \/ Receive
  \/ NoRequest
  \/ Handle
  \/ Reply
  \/ Wait
  \/ ControlOfClass
  \/ CheckDeadlineOfClass
  \/ PublishOfClass
  \/ ReceiveOfClass
  \/ HandleOfClass
  \/ ReplyOfClass
  \/ WaitOfClass
  \/ Cleanup
  \/ ClientSend
  \/ Stop

Spec == Init /\ [][Next]_vars

\* the steps of the loop thread
LoopStep ==
  \/ BeginIteration
  \/ ExitLoop
  \/ ReadSensors
  \/ CheckSafety
  \/ Control
  \/ CheckDeadline
  \/ Publish
  \/ Receive
  \/ NoRequest
  \/ Handle
  \/ Reply
  \/ Wait
  \/ ControlOfClass
  \/ CheckDeadlineOfClass
  \/ PublishOfClass
  \/ ReceiveOfClass
  \/ HandleOfClass
  \/ ReplyOfClass
  \/ WaitOfClass
  \/ Cleanup

\* The loop thread is scheduled: none of its steps blocks for ever (the poll
\* is non-blocking and the sleep ends at its target), so a step that stays
\* possible is taken.  Clients and the actor that stops the loop are free
\* to do nothing.
SpecLive == Init /\ [][Next]_vars /\ WF_vars(LoopStep)

\* ------------------------------------------- the Watchdog on its own
\* A Watchdog object driven directly, as its unit tests drive it: calls of
\* check, reset and set_budget in any order, and one scripted run of checks.
\* Every call is recorded in hist as [op, d, budget, warning_threshold],
\* where d is the duration checked (or the new budget) and budget and
\* warning_threshold are those in force when the call was made.

\* the budget of the Watchdog under test, 100 us
UnitBudget == 100000

\* the warning ratios the Watchdog is constructed with, in percent
Ratios == {50, 80, 100}

\* durations checked: below the warning threshold, between threshold and
\* budget, equal to the budget, above the budget
UnitDurations == {50000, 90000, 100000, 150000}

\* the budget set_budget installs, 200 us
NewBudgets == {200000}

\* the durations of the statistical accuracy test, in ns
StatDurations ==
  <<10000, 20000, 30000, 50000, 75000, 110000, 120000, 150000, 200000,
    40000, 60000, 80000>>

Call(op, d) ==
  [op |-> op, d |-> d, budget |-> uw.budget,
   warning_threshold |-> uw.warning_threshold]

WdInit ==
  /\ LoopInit
  /\ SharedIdle
  /\ PartsIdle
  /\ BenchIdle
  /\ impl = "struct"
  /\ ratio \in Ratios
  /\ uw = set_callbacks(set_thresholds(WatchdogWith(UnitBudget, ratio), 3, 5))
  /\ hist = <<>>
  /\ feed \in {<<>>, StatDurations}
  /\ feed # <<>> => ratio = 80

\* wd.check_duration(d) in a free run
UnitCheck ==
  /\ feed = <<>>
  /\ Len(hist) < MaxCalls
  /\ \E d \in UnitDurations :
       /\ uw' = WatchdogCheck(uw, d)
       /\ hist' = Append(hist, Call("check", d))
  /\ UNCHANGED <<ratio, feed>>

\* wd.check_duration(d) for the next duration of the scripted run
UnitCheckScripted ==
  /\ feed # <<>>
  /\ uw' = WatchdogCheck(uw, Head(feed))
  /\ hist' = Append(hist, Call("check", Head(feed)))
  /\ feed' = Tail(feed)
  /\ UNCHANGED ratio

\* wd.reset()
UnitReset ==
  /\ feed = <<>>
  /\ Len(hist) < MaxCalls
  /\ uw' = WatchdogReset(uw)
  /\ hist' = Append(hist, Call("reset", 0))
  /\ UNCHANGED <<ratio, feed>>

\* wd.set_budget(b)
UnitSetBudget ==
  /\ feed = <<>>
  /\ Len(hist) < MaxCalls
  /\ \E b \in NewBudgets :
       /\ uw' = WatchdogSetBudget(uw, b)
       /\ hist' = Append(hist, Call("set_budget", b))
  /\ UNCHANGED <<ratio, feed>>

\* the variables of the loops
sharedVars == <<cw, tpc, tl, started, reported, seen>>

loopSide ==
  <<impl, pc, running, hz, period_ns, control_enabled, emergency_stop,
    loop_count, deadline_misses, pid, prot, magnet, bpm_offset, pos,
    intensity, clk, wd, telemetry, pending, awaiting, cmd, r, recvs, ticks,
    sent, estop_cmd, published, u, deadline_missed>>

WdNext ==
  \/ UnitCheck /\ UNCHANGED <<loopSide, sharedVars, partVars, benchVars>>
  \/ UnitCheckScripted /\ UNCHANGED <<loopSide, sharedVars, partVars, benchVars>>
  \/ UnitReset /\ UNCHANGED <<loopSide, sharedVars, partVars, benchVars>>
  \/ UnitSetBudget /\ UNCHANGED <<loopSide, sharedVars, partVars, benchVars>>

SpecWatchdog == WdInit /\ [][WdNext]_vars

\* ----------------------------------- a Watchdog shared by several threads
\* Several threads call check on one Watchdog while a reader reads its
\* statistics.  Every access to an atomic field is one step of its thread.

\* a compare-and-swap that stores without comparing
compare_exchange_blind(actual, expected, desired) ==
  {[ok |-> TRUE, actual |-> desired, expected |-> expected]}

\* std::atomic::compare_exchange_weak: the outcomes for a field holding
\* actual.  It may fail although the field holds the expected value; a
\* failure loads the field into expected.
compare_exchange_weak(actual, expected, desired) ==
  {[ok |-> FALSE, actual |-> actual, expected |-> actual]}
    \cup (IF actual = expected
          THEN {[ok |-> TRUE, actual |-> desired, expected |-> expected]}
          ELSE {})

\* the thread moves on inside check
Goto(t, label) == tpc' = [tpc EXCEPT ![t] = label]

\* check_duration(d) is called
StartCheck(t) ==
  /\ tpc[t] = "idle"
  /\ tl[t].made < MaxThreadCalls
  /\ \E d \in ThreadDurations :
       /\ tl' = [tl EXCEPT ![t].d = d, ![t].made = @ + 1]
       /\ started' = [started EXCEPT ![d] = @ + 1]
  /\ Goto(t, "count")
  /\ UNCHANGED <<cw, reported, seen>>

\* total_checks.fetch_add(1)
CountCheck(t) ==
  /\ tpc[t] = "count"
  /\ cw' = [cw EXCEPT !.total_checks = @ + 1]
  /\ Goto(t, "load_min")
  /\ UNCHANGED <<tl, started, reported, seen>>

\* update_statistics: current_min = min_execution_ns.load()
LoadMin(t) ==
  /\ tpc[t] = "load_min"
  /\ tl' = [tl EXCEPT ![t].current_min = cw.min_execution_ns]
  /\ Goto(t, "cas_min")
  /\ UNCHANGED <<cw, started, reported, seen>>

\* update_statistics: one evaluation of the condition of the min loop
CasMin(t) ==
  /\ tpc[t] = "cas_min"
  /\ IF tl[t].d < tl[t].current_min
     THEN \E o \in compare_exchange_weak(cw.min_execution_ns,
                                         tl[t].current_min, tl[t].d) :
            /\ cw' = [cw EXCEPT !.min_execution_ns = o.actual]
            /\ tl' = [tl EXCEPT ![t].current_min = o.expected]
            /\ Goto(t, IF o.ok THEN "load_max" ELSE "cas_min")
     ELSE /\ Goto(t, "load_max")
          /\ UNCHANGED <<cw, tl>>
  /\ UNCHANGED <<started, reported, seen>>

\* update_statistics: current_max = max_execution_ns.load()
LoadMax(t) ==
  /\ tpc[t] = "load_max"
  /\ tl' = [tl EXCEPT ![t].current_max = cw.max_execution_ns]
  /\ Goto(t, "cas_max")
  /\ UNCHANGED <<cw, started, reported, seen>>

\* update_statistics: one evaluation of the condition of the max loop
CasMax(t) ==
  /\ tpc[t] = "cas_max"
  /\ IF tl[t].d > tl[t].current_max
     THEN \E o \in compare_exchange_weak(cw.max_execution_ns,
                                         tl[t].current_max, tl[t].d) :
            /\ cw' = [cw EXCEPT !.max_execution_ns = o.actual]
            /\ tl' = [tl EXCEPT ![t].current_max = o.expected]
            /\ Goto(t, IF o.ok THEN "sum" ELSE "cas_max")
     ELSE /\ Goto(t, "sum")
          /\ UNCHANGED <<cw, tl>>
  /\ UNCHANGED <<started, reported, seen>>

\* update_statistics: sum_execution_ns.fetch_add(exec_ns)
AddSum(t) ==
  /\ tpc[t] = "sum"
  /\ cw' = [cw EXCEPT !.sum_execution_ns = @ + tl[t].d]
  /\ Goto(t, "trip")
  /\ UNCHANGED <<tl, started, reported, seen>>

\* deadline_missed = execution_ns > budget; tripped.store(deadline_missed)
StoreTripped(t) ==
  /\ tpc[t] = "trip"
  /\ LET missed == Exceeds(tl[t].d, cw.budget)
     IN /\ cw' = [cw EXCEPT !.tripped = missed]
        /\ tl' = [tl EXCEPT ![t].missed = missed]
        /\ Goto(t, IF missed THEN "violation" ELSE "clear")
  /\ UNCHANGED <<started, reported, seen>>

\* handle_deadline_miss: total_violations.fetch_add(1)
AddViolation(t) ==
  /\ tpc[t] = "violation"
  /\ cw' = [cw EXCEPT !.total_violations = @ + 1]
  /\ Goto(t, "consecutive")
  /\ UNCHANGED <<tl, started, reported, seen>>

\* handle_deadline_miss: consecutive_misses.fetch_add(1) and the callback
AddConsecutive(t) ==
  /\ tpc[t] = "consecutive"
  /\ cw' = [cw EXCEPT !.consecutive_misses = @ + 1,
                      !.critical_calls =
                         IF cw.consecutive_misses + 1
                              >= cw.critical_consecutive_threshold
                            /\ cw.critical_callback
                         THEN @ + 1 ELSE @]
  /\ Goto(t, "warning")
  /\ UNCHANGED <<tl, started, reported, seen>>

\* consecutive_misses.store(0)
ClearConsecutive(t) ==
  /\ tpc[t] = "clear"
  /\ cw' = [cw EXCEPT !.consecutive_misses = 0]
  /\ Goto(t, "warning")
  /\ UNCHANGED <<tl, started, reported, seen>>

\* the warning branch: total_warnings.fetch_add(1), or
\* consecutive_warnings.store(0) and the return
CheckWarning(t) ==
  /\ tpc[t] = "warning"
  /\ IF Exceeds(tl[t].d, cw.warning_threshold)
     THEN /\ cw' = [cw EXCEPT !.total_warnings = @ + 1]
          /\ Goto(t, "warnings")
          /\ UNCHANGED reported
     ELSE /\ cw' = [cw EXCEPT !.consecutive_warnings = 0]
          /\ Goto(t, "idle")
          /\ reported' = IF tl[t].missed THEN reported + 1 ELSE reported
  /\ UNCHANGED <<tl, started, seen>>

\* handle_warning: consecutive_warnings.fetch_add(1), the callback and the
\* return of deadline_missed
AddWarning(t) ==
  /\ tpc[t] = "warnings"
  /\ cw' = [cw EXCEPT !.consecutive_warnings = @ + 1,
                      !.warning_calls =
                         IF cw.consecutive_warnings + 1
                              >= cw.warning_consecutive_threshold
                            /\ cw.warning_callback
                         THEN @ + 1 ELSE @]
  /\ reported' = IF tl[t].missed THEN reported + 1 ELSE reported
  /\ Goto(t, "idle")
  /\ UNCHANGED <<tl, started, seen>>

\* a reader thread calls get_total_checks and get_total_violations
ReadStatistics ==
  /\ seen' = [total_checks |-> cw.total_checks,
              total_violations |-> cw.total_violations]
  /\ seen' # seen
  /\ UNCHANGED <<cw, tpc, tl, started, reported>>

SharedInit ==
  /\ LoopInit
  /\ UnitIdle
  /\ PartsIdle
  /\ BenchIdle
  /\ impl = "struct"
  /\ cw = Watchdog(UnitBudget)
  /\ tpc = [t \in Threads |-> "idle"]
  /\ tl = [t \in Threads |-> ThreadIdle]
  /\ started = [d \in ThreadDurations |-> 0]
  /\ reported = 0
  /\ seen = [total_checks |-> 0, total_violations |-> 0]

\* what a step on the shared Watchdog leaves alone
unshared == <<loopSide, uw, ratio, hist, feed, partVars, benchVars>>

SharedNext ==
  \/ \E t \in Threads : StartCheck(t) /\ UNCHANGED unshared
  \/ \E t \in Threads : CountCheck(t) /\ UNCHANGED unshared
  \/ \E t \in Threads : LoadMin(t) /\ UNCHANGED unshared
  \/ \E t \in Threads : CasMin(t) /\ UNCHANGED unshared
  \/ \E t \in Threads : LoadMax(t) /\ UNCHANGED unshared
  \/ \E t \in Threads : CasMax(t) /\ UNCHANGED unshared
  \/ \E t \in Threads : AddSum(t) /\ UNCHANGED unshared
  \/ \E t \in Threads : StoreTripped(t) /\ UNCHANGED unshared
  \/ \E t \in Threads : AddViolation(t) /\ UNCHANGED unshared
  \/ \E t \in Threads : AddConsecutive(t) /\ UNCHANGED unshared
  \/ \E t \in Threads : ClearConsecutive(t) /\ UNCHANGED unshared
  \/ \E t \in Threads : CheckWarning(t) /\ UNCHANGED unshared
  \/ \E t \in Threads : AddWarning(t) /\ UNCHANGED unshared
  \/ ReadStatistics /\ UNCHANGED unshared

SpecShared == SharedInit /\ [][SharedNext]_vars

\* ------------------------------------------ the PeriodicClock on its own
\* A PeriodicClock driven directly, as the timing tests drive it.  The
\* caller works for some time and then calls wait_next or set_period; every
\* call is recorded in khist as [op, at, target, wake, period]: the time of
\* the call, the target before it, the time the call returned and the
\* period after it.

\* the periods of the clock: 2 kHz and 1 kHz
ClockPeriods == {500000, 1000000}

\* what the caller does between two calls takes no time, a part of a
\* period, or more than two periods
WorkTimes == {0, 100000, 2500000}

\* how late the thread can wake from a sleep
OverSleep == {0, 50000}

ClockInit ==
  /\ LoopInit
  /\ UnitIdle
  /\ SharedIdle
  /\ impl = "struct"
  /\ now = 0
  /\ \E p \in ClockPeriods : kclk = PeriodicClock(p, 0)
  /\ khist = <<>>
  /\ upid = PID
  /\ plog = <<>>
  /\ BenchIdle

\* clk.wait_next()
UnitWaitNext ==
  /\ Len(khist) < MaxClockCalls
  /\ \E d \in WorkTimes, late \in OverSleep :
       LET at == now + d
           wake == sleep_until(kclk.next, at, late)
       IN /\ kclk' = wait_next(kclk, wake)
          /\ now' = wake
          /\ khist' = Append(khist, [op |-> "wait_next", at |-> at,
                                     target |-> kclk.next, wake |-> wake,
                                     period |-> kclk.period])
  /\ UNCHANGED <<upid, plog>>

\* clk.set_period(p)
UnitSetPeriod ==
  /\ Len(khist) < MaxClockCalls
  /\ \E d \in WorkTimes, p \in ClockPeriods :
       LET at == now + d
       IN /\ kclk' = set_period(kclk, p, at)
          /\ now' = at
          /\ khist' = Append(khist, [op |-> "set_period", at |-> at,
                                     target |-> kclk.next, wake |-> at,
                                     period |-> p])
  /\ UNCHANGED <<upid, plog>>

\* everything but the clock and the PID exercised on their own
unparted == <<loopSide, uw, ratio, hist, feed, sharedVars, benchVars>>

ClockNext ==
  \/ UnitWaitNext /\ UNCHANGED unparted
  \/ UnitSetPeriod /\ UNCHANGED unparted

SpecClock == ClockInit /\ [][ClockNext]_vars

\* --------------------------------------------------- the PID on its own
\* A PID driven directly, as its unit tests drive it: step, reset,
\* set_setpoint, set_integrator_limits and assignments to the gains, in any
\* order.  Every call is recorded in plog as [op, before, y, dt, after]:
\* the controller before the call, the measurement and time step of a step,
\* and, for a step, the integrator and the derivative term after it.

\* measurements, time steps (1 ms and 1 s, in 1e-4 s; 0 is no time step),
\* setpoints, integrator windows and gains
Measurements == {-3000, 0, 100}
TimeSteps == {0, 10, 10000}
Setpoints == {0, 1500}
Windows == {<<-10000, 10000>>, <<-50, 50>>, <<1000, 5000>>}
GainSets == {<<600, 50, 0>>, <<2000, 1000, 500>>}

PidCall(op, y, dt, after) ==
  [op |-> op, before |-> upid, y |-> y, dt |-> dt, after |-> after]

PidInit ==
  /\ LoopInit
  /\ UnitIdle
  /\ SharedIdle
  /\ impl = "struct"
  /\ kclk = PeriodicClock(PeriodOf(1000), 0)
  /\ now = 0
  /\ khist = <<>>
  /\ upid = PID
  /\ plog = <<>>
  /\ BenchIdle

\* pid.step(y, dt, lim.magnet_min, lim.magnet_max)
UnitStep ==
  /\ Len(plog) < MaxPidCalls
  /\ \E y \in Measurements, dt \in TimeSteps :
       LET st == PIDstep(upid, y, dt, magnet_min, magnet_max)
       IN /\ upid' = st.pid
          /\ plog' = Append(plog, PidCall("step", y, dt,
                               [integ |-> st.pid.integ,
                                derivative |-> st.last_derivative]))
  /\ UNCHANGED <<kclk, now, khist>>

\* pid.reset()
UnitPidReset ==
  /\ Len(plog) < MaxPidCalls
  /\ upid' = PIDreset(upid)
  /\ plog' = Append(plog, PidCall("reset", 0, 0, <<>>))
  /\ UNCHANGED <<kclk, now, khist>>

\* pid.set_setpoint(sp)
UnitSetSetpoint ==
  /\ Len(plog) < MaxPidCalls
  /\ \E sp \in Setpoints :
       /\ upid' = PIDset_setpoint(upid, sp)
       /\ plog' = Append(plog, PidCall("set_setpoint", 0, 0, <<>>))
  /\ UNCHANGED <<kclk, now, khist>>

\* pid.set_integrator_limits(min_val, max_val)
UnitSetLimits ==
  /\ Len(plog) < MaxPidCalls
  /\ \E w \in Windows :
       /\ upid' = PIDset_integrator_limits(upid, w[1], w[2])
       /\ plog' = Append(plog, PidCall("set_integrator_limits", 0, 0, <<>>))
  /\ UNCHANGED <<kclk, now, khist>>

\* pid.kp = ...; pid.ki = ...; pid.kd = ...
UnitSetGains ==
  /\ Len(plog) < MaxPidCalls
  /\ \E g \in GainSets :
       /\ upid' = [upid EXCEPT !.kp = g[1], !.ki = g[2], !.kd = g[3]]
       /\ plog' = Append(plog, PidCall("set_gains", 0, 0, <<>>))
  /\ UNCHANGED <<kclk, now, khist>>

PidNext ==
  \/ UnitStep /\ UNCHANGED unparted
  \/ UnitPidReset /\ UNCHANGED unparted
  \/ UnitSetSetpoint /\ UNCHANGED unparted
  \/ UnitSetLimits /\ UNCHANGED unparted
  \/ UnitSetGains /\ UNCHANGED unparted

SpecPID == PidInit /\ [][PidNext]_vars

\* --------------------------------------- the BeamLossMonitor on its own
\* A BeamLossMonitor driven directly, as the telemetry tests drive it, with
\* both callbacks set.  Every call is recorded in blog; a measurement as
\* [op, loss, threshold_warning, threshold_abort, safe, warning_cb,
\* abort_cb, abort_active]: the simulated loss rate, the thresholds in
\* force, what the call returned, which callbacks it invoked and
\* is_abort_active() after it.

\* <<beam_current, beam_position>>: a quiet beam, a beam above the default
\* warning threshold and a beam above the default abort threshold
BlmInputs == {<<10, 0>>, <<60, 10000>>, <<1000, 10000>>}

\* <<warning, abort>> thresholds a test sets: 1e-7 and 1e-6 Gy/s
BlmThresholds == {<<100000, 1000000>>}

BlmBenchInit ==
  /\ LoopInit
  /\ UnitIdle
  /\ SharedIdle
  /\ PartsIdle
  /\ impl = "struct"
  /\ ublm = BeamLossMonitor("THRESHOLD_BLM")
  /\ blog = <<>>
  /\ ring = RingBuffer(RingCapacity)
  /\ rthr = RingThreads(1)
  /\ rx = <<>>

\* blm.update_measurement(beam_current, beam_position)
UnitMeasure ==
  /\ Len(blog) < MaxBlmCalls
  /\ \E in \in BlmInputs :
       LET m == update_measurement(ublm, in[1], in[2])
       IN /\ ublm' = m.blm
          /\ blog' = Append(blog,
               [op |-> "update_measurement",
                loss |-> SimulatedLoss(in[1], in[2]),
                threshold_warning |-> ublm.threshold_warning,
                threshold_abort |-> ublm.threshold_abort,
                safe |-> m.safe, warning_cb |-> m.warning_cb,
                abort_cb |-> m.abort_cb,
                abort_active |-> m.blm.abort_active])

\* blm.set_warning_threshold(w); blm.set_abort_threshold(a)
UnitSetThresholds ==
  /\ Len(blog) < MaxBlmCalls
  /\ \E t \in BlmThresholds :
       /\ ublm' = set_abort_threshold(set_warning_threshold(ublm, t[1]), t[2])
       /\ blog' = Append(blog,
            [op |-> "set_thresholds", loss |-> 0,
             threshold_warning |-> t[1], threshold_abort |-> t[2],
             safe |-> TRUE, warning_cb |-> FALSE, abort_cb |-> FALSE,
             abort_active |-> ublm.abort_active])

\* blm.reset_statistics()
UnitResetStatistics ==
  /\ Len(blog) < MaxBlmCalls
  /\ ublm' = reset_statistics(ublm)
  /\ blog' = Append(blog,
       [op |-> "reset_statistics", loss |-> 0,
        threshold_warning |-> ublm.threshold_warning,
        threshold_abort |-> ublm.threshold_abort,
        safe |-> TRUE, warning_cb |-> FALSE, abort_cb |-> FALSE,
        abort_active |-> FALSE])

\* everything but the monitor exercised on its own
unmonitored ==
  <<loopSide, uw, ratio, hist, feed, sharedVars, partVars, ring, rthr, rx>>

BlmNext ==
  \/ UnitMeasure /\ UNCHANGED unmonitored
  \/ UnitSetThresholds /\ UNCHANGED unmonitored
  \/ UnitResetStatistics /\ UNCHANGED unmonitored

SpecBLM == BlmBenchInit /\ [][BlmNext]_vars

\* ------------------------------------- the RingBuffer and its threads
\* A RingBuffer of TestData shared by one or two producer threads, each
\* pushing MaxPushes elements, and a consumer thread calling for_each, as
\* the stress tests run them.  The buffer's functions take no lock, so each
\* access of theirs to shared memory is a step of its own: push loads head,
\* assigns the element word by word and stores head; for_each loads head
\* and then reads one element per call of f.  Producer t numbers its
\* elements 10 * t + 1, 10 * t + 2, ...; rthr.visited is what f has been
\* given in the call of for_each under way or last finished.

RingInit ==
  /\ LoopInit
  /\ UnitIdle
  /\ SharedIdle
  /\ PartsIdle
  /\ impl = "struct"
  /\ ublm = BlmInit
  /\ blog = <<>>
  /\ ring = RingBuffer(RingCapacity)
  /\ \E n \in Producers : rthr = RingThreads(n)
  /\ rx = <<>>

\* push: size_t current_head = head.load()
PushLoad(t) ==
  /\ t <= rthr.nprod
  /\ rthr.pc[t] = "idle"
  /\ rthr.pushed[t] < MaxPushes
  /\ rthr' = [rthr EXCEPT !.pc[t] = "write_id",
                          !.current_head[t] = ring.head,
                          !.v[t] = TestData(10 * t + rthr.pushed[t] + 1)]
  /\ UNCHANGED ring

\* push: buf[current_head % buf.size()] = v, the first word
PushWriteId(t) ==
  /\ rthr.pc[t] = "write_id"
  /\ ring' = [ring EXCEPT
       !.buf[(rthr.current_head[t] % Len(ring.buf)) + 1].id = rthr.v[t].id]
  /\ rthr' = [rthr EXCEPT !.pc[t] = "write_check"]

\* push: buf[current_head % buf.size()] = v, the second word
PushWriteCheck(t) ==
  /\ rthr.pc[t] = "write_check"
  /\ ring' = [ring EXCEPT
       !.buf[(rthr.current_head[t] % Len(ring.buf)) + 1].check =
          rthr.v[t].check]
  /\ rthr' = [rthr EXCEPT !.pc[t] = "store"]

\* push: head.store(current_head + 1), and push returns
PushStore(t) ==
  /\ rthr.pc[t] = "store"
  /\ ring' = [ring EXCEPT !.head = rthr.current_head[t] + 1]
  /\ rthr' = [rthr EXCEPT !.pc[t] = "idle", !.pushed[t] = @ + 1]

\* for_each: const size_t current_head = head.load()
ForEachLoad ==
  /\ rthr.cpc = "idle"
  /\ rthr.rounds < MaxRounds
  /\ rthr' = [rthr EXCEPT !.cpc = "visit", !.chead = ring.head, !.k = 0,
                          !.visited = <<>>]
  /\ UNCHANGED ring

\* for_each: f(buf[i]) for the next slot of either branch
ForEachVisit ==
  /\ rthr.cpc = "visit"
  /\ rthr.k < Min(rthr.chead, Len(ring.buf))
  /\ rthr' = [rthr EXCEPT
       !.visited = Append(@,
          ring.buf[VisitedSlot(rthr.chead, Len(ring.buf), rthr.k) + 1]),
       !.k = @ + 1]
  /\ UNCHANGED ring

\* for_each: the loops are over and for_each returns
ForEachReturn ==
  /\ rthr.cpc = "visit"
  /\ rthr.k = Min(rthr.chead, Len(ring.buf))
  /\ rthr' = [rthr EXCEPT !.cpc = "idle", !.rounds = @ + 1]
  /\ UNCHANGED ring

\* everything but the ring buffer and its threads
unringed ==
  <<loopSide, uw, ratio, hist, feed, sharedVars, partVars, ublm, blog, rx>>

RingNext ==
  \/ \E t \in Producers : PushLoad(t) /\ UNCHANGED unringed
  \/ \E t \in Producers : PushWriteId(t) /\ UNCHANGED unringed
  \/ \E t \in Producers : PushWriteCheck(t) /\ UNCHANGED unringed
  \/ \E t \in Producers : PushStore(t) /\ UNCHANGED unringed
  \/ ForEachLoad /\ UNCHANGED unringed
  \/ ForEachVisit /\ UNCHANGED unringed
  \/ ForEachReturn /\ UNCHANGED unringed

SpecRing == RingInit /\ [][RingNext]_vars

\* ------------------------------------------- the ControlRep on its own
\* ControlRep::recv called for requests of several lengths, one per call;
\* rx records each call as [msg_len, size, stored, beyond, outcome], where
\* outcome is "string" when recv returned a string of bytes of buf and
\* otherwise what the read past buf did.

\* the lengths of the requests: none pending, empty, a command, exactly the
\* buffer, one byte more, and about twice the buffer
MessageLengths == {-1, 0, 17, BufSize, BufSize + 1, 2000}

RecvInit ==
  /\ LoopInit
  /\ UnitIdle
  /\ SharedIdle
  /\ PartsIdle
  /\ BenchIdle
  /\ impl = "struct"

\* rep.recv()
UnitRecv ==
  /\ Len(rx) < MaxRecvCalls
  /\ \A i \in 1..Len(rx) : rx[i].outcome # "fault"
  /\ \E msg_len \in MessageLengths :
       LET s == recv(msg_len)
       IN \E o \in (IF s.beyond > 0 THEN Overruns ELSE {"string"}) :
            rx' = Append(rx, [msg_len |-> msg_len, size |-> s.size,
                              stored |-> s.stored, beyond |-> s.beyond,
                              outcome |-> o])

\* everything but the endpoint exercised on its own
unreceived ==
  <<loopSide, uw, ratio, hist, feed, sharedVars, partVars, ublm, blog, ring,
    rthr>>

RecvNext ==
  \/ UnitRecv /\ UNCHANGED unreceived

SpecRecv == RecvInit /\ [][RecvNext]_vars

\* ------------------------------------------ commands handed to the loop
\* The command handler of either loop called directly, as the command tests
\* call it on a loop that is not running: any payload the model knows, and
\* a set_pid a client builds from the text of the status reply it has just
\* received.  cmd holds the latest payload, r its reply and sent the number
\* of calls; an exception of the struct loop's handler ends the run.

\* the status reply as the client receives it: the gains as JSON text
ReportedGains(reply) ==
  [kp |-> FormatNumber(reply.pid_gains.kp),
   ki |-> FormatNumber(reply.pid_gains.ki),
   kd |-> FormatNumber(reply.pid_gains.kd)]

\* json::parse of the set_pid the client builds from that text
ParseReported(text) ==
  JObj([cmd |-> JStr("set_pid"), kp |-> JNum(ParseNumber(text.kp)),
        ki |-> JNum(ParseNumber(text.ki)), kd |-> JNum(ParseNumber(text.kd))])

\* handle_cmd or handle_command, whichever loop is under test
HandlerOf(L, j) ==
  IF impl = "struct" THEN handle_cmd_parsed(L, j)
  ELSE handle_command_parsed(L, j)

CommandsInit == Init

\* what a call of the handler leaves alone
uncalled ==
  <<unitVars, impl, pos, intensity, clk, wd, telemetry, pending, awaiting,
    recvs, ticks, estop_cmd, published, u, deadline_missed>>

\* loop.handle_cmd(p, period_ns) / loop.handle_command(p)
CallHandler ==
  /\ pc = "top"
  /\ sent < MaxCommands
  /\ \E p \in AllPayloads :
       LET o == HandlerOf(LoopState, Parse(p))
       IN /\ Store(o.L)
          /\ cmd' = <<p>>
          /\ r' = o.r
          /\ pc' = IF o.thrown THEN "crashed" ELSE "top"
  /\ sent' = sent + 1
  /\ UNCHANGED uncalled

\* the client answers a status reply with a set_pid of the reported gains
SendReportedGains ==
  /\ pc = "top"
  /\ sent < MaxCommands
  /\ r # <<>>
  /\ "pid_gains" \in DOMAIN r[1]
  /\ LET o == HandlerOf(LoopState, ParseReported(ReportedGains(r[1])))
     IN /\ Store(o.L)
        /\ r' = o.r
        /\ pc' = IF o.thrown THEN "crashed" ELSE "top"
  /\ cmd' = <<P_set_pid_reported>>
  /\ sent' = sent + 1
  /\ UNCHANGED uncalled

CommandsNext ==
  \/ CallHandler
  \/ SendReportedGains

SpecCommands == CommandsInit /\ [][CommandsNext]_vars

\* ------------------------------------------------------------------ claims
\* the saturated output the PID would give in the current state
WouldOutput == PIDstep(pid, pos, Dt(period_ns), magnet_min, magnet_max).output

\* C1: in every iteration, if at the start of the control phase the
\* emergency stop is set, or control is disabled, or the MPS has withdrawn
\* the beam permit, the control phase commands the actuator to 0, whatever
\* the PID would output.
C1_ZeroWhenNotPermitted ==
  [][(/\ pc = "control"
      /\ pc' = "watchdog"
      /\ \/ emergency_stop
         \/ ~control_enabled
         \/ (impl = "struct" /\ ~is_beam_permitted(prot.mps)))
     => magnet' = 0]_vars

\* a tick of each kind: the emergency stop set, control disabled by a
\* command, and the permit withdrawn, each with a PID that would not give 0
C1_Witness ==
  /\ pc = "watchdog"
  /\ impl = "struct"
  /\ ~is_beam_permitted(prot.mps)
  /\ emergency_stop
  /\ WouldOutput # 0
  /\ magnet = 0

\* C2: every value written to the magnet lies in [magnet_min, magnet_max],
\* in every iteration and after every command, and the output PID::step
\* returns for the limits passed to it lies within them.
C2_MagnetWithinLimits ==
  /\ magnet >= magnet_min
  /\ magnet <= magnet_max
  /\ pc = "control" => (WouldOutput >= magnet_min /\ WouldOutput <= magnet_max)

\* the PID saturates: an error of 10.0 with kp = 0.6 asks for 6.0 A and the
\* magnet gets the limit
C2_Witness ==
  /\ pc = "watchdog"
  /\ control_enabled
  /\ ~emergency_stop
  /\ pos = 10000
  /\ magnet = magnet_min

\* C3: a safety evaluation that finds an abort threshold exceeded while the
\* MPS is not latched sets abort_latched, withdraws the permit, adds exactly
\* one to total_aborts and invokes beam_abort_callback exactly once.
C3_SingleAbort ==
  [][(~prot.mps.abort_triggered /\ prot'.mps.abort_triggered)
     => /\ ~prot'.mps.beam_permit
        /\ prot'.mps.total_aborts = prot.mps.total_aborts + 1
        /\ prot'.abort_calls = prot.abort_calls + 1]_vars

\* C4: once the emergency stop is latched it stays latched, control stays
\* disabled and the control phase commands 0, in every step that is not the
\* handling of a recommission command.
C4_LatchedUntilRecommission ==
  [][(emergency_stop /\ ~(pc = "handle" /\ cmd = <<P_recommission>>))
     => /\ emergency_stop'
        /\ ~control_enabled'
        /\ (pc = "control" /\ pc' = "watchdog") => magnet' = 0]_vars

\* C5: a tick that reads intensity 5e4 and position 10.0 publishes
\* mps_abort = true, mps_safe = false and mag = 0.
C5_TripAt5e4 ==
  (/\ impl = "struct"
   /\ pc = "poll"
   /\ intensity = 50
   /\ pos = 10000)
  => /\ telemetry[1].mps_abort
     /\ ~telemetry[1].mps_safe
     /\ telemetry[1].mag = 0

\* C6: after an emergency_stop command has been handled, the records
\* published next have mag = 0 and get_status reports emergency_stop = true
\* and control_enabled = false, in both loops.
C6_AfterEmergencyStop ==
  [][/\ (estop_cmd /\ pc = "publish" /\ pc' = "poll")
          => telemetry'[Len(telemetry')].mag = 0
     /\ (estop_cmd /\ pc = "handle" /\ cmd = <<P_get_status>> /\ pc' = "reply")
          => (r'[1].emergency_stop /\ ~r'[1].control_enabled)]_vars

\* C7: at every tick boundary the clock's period and the watchdog's budget
\* are the period of the frequency in effect; after set_freq with hz = 500
\* both are 2 ms.
C7_PeriodApplied ==
  pc = "top" => (clk.period = PeriodOf(hz) /\ wd.budget = PeriodOf(hz))

\* C8: an iteration receives at most one command, and a received command is
\* answered before the iteration ends: the endpoint owes a reply only while
\* the command is being handled.
C8_OneRequestOneReply ==
  /\ recvs <= 1
  /\ awaiting => pc \in {"handle", "reply"}

\* the recognised commands whose field has the wrong type
WrongTypePayloads == {P_set_pid_bad, P_set_freq_bad, P_enable_bad}

\* C9: handling a command never ends the loop: it always leads to the
\* reply, and a command whose field has the wrong type gets a negative one.
C9_NoFailureEscapes ==
  [][(pc = "handle" /\ pc' # "handle")
     => /\ pc' = "reply"
        /\ cmd[1] \in WrongTypePayloads => ~r'[1].ok]_vars

\* payloads that cannot be parsed, are not an object, have no cmd field or
\* name a command the struct RTLoop does not know
DecodeErrorPayloads == {P_empty, P_garbage, P_array, P_nocmd, P_unknown, P_stop}

\* C10: the struct RTLoop answers a payload that cannot be parsed, is not
\* an object, has no cmd or names an unknown cmd with {"ok":false} and goes
\* on to send that reply.
C10_DecodeErrorsRejected ==
  [][(/\ impl = "struct"
      /\ pc = "handle"
      /\ pc' # "handle"
      /\ cmd[1] \in DecodeErrorPayloads)
     => (pc' = "reply" /\ r' = <<[ok |-> FALSE]>>)]_vars

\* an unparsable payload has been answered and the loop is on its way to
\* the next iteration
C10_Witness ==
  /\ impl = "struct"
  /\ pc = "wait"
  /\ cmd = <<P_garbage>>
  /\ r = <<[ok |-> FALSE]>>
  /\ ~awaiting

\* C11: the cycle counter never decreases and has grown by exactly one at
\* the end of every iteration, and the deadline-miss counter never
\* decreases, whatever commands are handled, in both loops.
C11_CountersMonotone ==
  [][/\ loop_count' >= loop_count
     /\ deadline_misses' >= deadline_misses
     /\ pc' = "top" => loop_count' = ticks']_vars

\* the phases of an iteration that come before its record is sent
BeforePublish == {"sense", "mps", "control", "watchdog", "publish"}

IsCheck(c) == c.op = "check"
IsMiss(c) == IsCheck(c) /\ c.d > c.budget
IsWarning(c) == IsCheck(c) /\ c.d > c.warning_threshold
Front(h) == SubSeq(h, 1, Len(h) - 1)
Last(h) == h[Len(h)]
Checks(h) == {k \in 1..Len(h) : IsCheck(h[k])}

\* the length of the run of missed checks that ends at the latest check,
\* counted from the latest reset
RECURSIVE MissRun(_)
MissRun(h) ==
  IF h = <<>> THEN 0
  ELSE IF IsCheck(Last(h))
       THEN (IF IsMiss(Last(h)) THEN MissRun(Front(h)) + 1 ELSE 0)
       ELSE IF Last(h).op = "reset" THEN 0 ELSE MissRun(Front(h))

\* the same for checks above the warning threshold
RECURSIVE WarningRun(_)
WarningRun(h) ==
  IF h = <<>> THEN 0
  ELSE IF IsCheck(Last(h))
       THEN (IF IsWarning(Last(h)) THEN WarningRun(Front(h)) + 1 ELSE 0)
       ELSE IF Last(h).op = "reset" THEN 0 ELSE WarningRun(Front(h))

\* the length of the run of missed checks that ends at the latest check,
\* when a reset between two checks does not break the run
RECURSIVE MissRunAcrossResets(_)
MissRunAcrossResets(h) ==
  IF h = <<>> THEN 0
  ELSE IF IsCheck(Last(h))
       THEN (IF IsMiss(Last(h)) THEN MissRunAcrossResets(Front(h)) + 1 ELSE 0)
       ELSE MissRunAcrossResets(Front(h))

\* the checks at which a run of misses reaches the critical threshold
RisingEdges(h) ==
  {k \in Checks(h) :
     MissRun(SubSeq(h, 1, k)) = uw.critical_consecutive_threshold}

RECURSIVE SumOfDurations(_)
SumOfDurations(h) ==
  IF h = <<>> THEN 0
  ELSE (IF IsCheck(Last(h)) THEN Last(h).d ELSE 0) + SumOfDurations(Front(h))

\* C14: the consecutive-miss count survives the reset that ends an
\* iteration: when the latest Nc checks all missed the deadline, with or
\* without a reset after each of them, the watchdog is critical and the
\* critical callback has fired.
C14_CountCarriesOver ==
  MissRunAcrossResets(hist) >= uw.critical_consecutive_threshold
    => (is_critical(uw) /\ uw.critical_calls > 0)

\* C15: the critical callback has fired exactly once for every time a run
\* of consecutive misses reached Nc.
C15_OncePerRisingEdge ==
  uw.critical_calls = Cardinality(RisingEdges(hist))

\* C16: the latest check reported a miss exactly when its duration was
\* strictly greater than the budget, consecutive_misses is the length of the
\* run of misses ending at the latest check, and consecutive_warnings is the
\* length of the run of checks above the warning threshold.
C16_CheckAndRuns ==
  /\ (hist # <<>> /\ IsCheck(Last(hist)))
       => (uw.tripped <=> Last(hist).d > Last(hist).budget)
  /\ uw.consecutive_misses = MissRun(hist)
  /\ uw.consecutive_warnings = WarningRun(hist)

\* a run of misses was broken by a check on time and a new run has begun,
\* while the latest check was above the warning threshold but on time
C16_Witness ==
  /\ Len(hist) = 5
  /\ uw.total_violations = 3
  /\ uw.consecutive_misses = 0
  /\ uw.consecutive_warnings = 2
  /\ ~uw.tripped
  /\ Last(hist).d = 90000
  /\ hist[1].d = 150000 /\ hist[2].d = 150000

\* the scripted run of the statistical accuracy test has been made
ScriptDone ==
  /\ feed = <<>>
  /\ Len(hist) = Len(StatDurations)
  /\ \A k \in 1..Len(hist) : IsCheck(hist[k]) /\ hist[k].d = StatDurations[k]

\* C17: total_checks is the number of checks, total_violations the number
\* of checks above the budget, and sum, minimum and maximum are those of
\* the durations checked; the scripted run with budget 100 us gives 12
\* checks, 4 violations, sum 945 us (mean 78.75 us), min 10 us, max 200 us.
C17_Statistics ==
  LET ds == {hist[k].d : k \in Checks(hist)}
  IN /\ uw.total_checks = Cardinality(Checks(hist))
     /\ uw.total_violations = Cardinality({k \in Checks(hist) : IsMiss(hist[k])})
     /\ uw.total_warnings = Cardinality({k \in Checks(hist) : IsWarning(hist[k])})
     /\ uw.sum_execution_ns = SumOfDurations(hist)
     /\ ds # {} => /\ get_min_execution_ns(uw) \in ds
                   /\ uw.max_execution_ns \in ds
                   /\ \A d \in ds : /\ get_min_execution_ns(uw) <= d
                                    /\ d <= uw.max_execution_ns
     /\ ds = {} => (get_min_execution_ns(uw) = 0 /\ uw.max_execution_ns = 0)
     /\ ScriptDone =>
          /\ uw.total_checks = 12
          /\ uw.total_violations = 4
          /\ uw.sum_execution_ns = 945000
          /\ uw.sum_execution_ns = 78750 * uw.total_checks
          /\ get_min_execution_ns(uw) = 10000
          /\ uw.max_execution_ns = 200000

C17_Witness ==
  /\ ScriptDone
  /\ uw.total_violations = 4
  /\ uw.sum_execution_ns = 945000

\* C18: reset() clears the tripped flag, consecutive_misses and
\* consecutive_warnings and changes nothing else of the watchdog.
C18_ResetKeepsStatistics ==
  [][(Len(hist') = Len(hist) + 1 /\ Last(hist').op = "reset")
     => /\ ~uw'.tripped
        /\ uw'.consecutive_misses = 0
        /\ uw'.consecutive_warnings = 0
        /\ uw' = [uw EXCEPT !.tripped = FALSE, !.consecutive_misses = 0,
                            !.consecutive_warnings = 0]]_vars

\* three misses, then a reset: the counts of the run are gone and the
\* totals are still there
C18_Witness ==
  /\ Len(hist) = 4
  /\ Last(hist).op = "reset"
  /\ uw.total_violations = 3
  /\ uw.total_checks = 3
  /\ uw.sum_execution_ns = 450000
  /\ uw.consecutive_misses = 0
  /\ ~uw.tripped

\* C19: at all times the warning threshold is the configured ratio times
\* the budget in force, whatever ratio the watchdog was constructed with.
C19_ThresholdFollowsRatio ==
  uw.warning_threshold = (uw.budget * ratio) \div 100

\* every thread is outside check
AllReturned == \A t \in Threads : tpc[t] = "idle"

\* the durations of the calls started so far
StartedDurations == {d \in ThreadDurations : started[d] > 0}

\* C20: whenever every call of check made by the threads has returned,
\* total_checks is the number of calls, total_violations is the number of
\* calls that returned a miss and the number of calls whose duration
\* exceeded the budget, the sum is the sum of the durations, and min and
\* max are the smallest and the largest duration checked.
C20_NoLostUpdate ==
  AllReturned =>
    /\ cw.total_checks = started[50000] + started[150000]
    /\ cw.total_violations = reported
    /\ cw.total_violations = started[150000]
    /\ cw.sum_execution_ns = 50000 * started[50000] + 150000 * started[150000]
    /\ StartedDurations # {} =>
         /\ cw.min_execution_ns \in StartedDurations
         /\ cw.max_execution_ns \in StartedDurations
         /\ \A d \in StartedDurations :
              cw.min_execution_ns <= d /\ d <= cw.max_execution_ns

\* both threads have made all their calls, with both durations among them
C20_Witness ==
  /\ AllReturned
  /\ \A t \in Threads : tl[t].made = MaxThreadCalls
  /\ started[50000] > 0
  /\ started[150000] > 0
  /\ cw.min_execution_ns = 50000
  /\ cw.max_execution_ns = 150000

\* ---- what the recorded calls say about a PeriodicClock
IsWait(c) == c.op = "wait_next"
IsSetPeriod(c) == c.op = "set_period"

\* C21: between two consecutive waits with no set_period between them the
\* target advances by exactly one period, however late the first wait
\* was called; a wait called at or after its target returns at once, and no
\* wait returns before its target.
C21_NoTickSkipped ==
  /\ \A k \in 1..Len(khist) :
       IsWait(khist[k]) =>
         /\ khist[k].wake >= khist[k].target
         /\ khist[k].at >= khist[k].target => khist[k].wake = khist[k].at
  /\ \A k \in 1..(Len(khist) - 1) :
       (IsWait(khist[k]) /\ IsWait(khist[k + 1])) =>
         khist[k + 1].target = khist[k].target + khist[k].period
  /\ (khist # <<>> /\ IsWait(khist[Len(khist)])) =>
       kclk.next = khist[Len(khist)].target + khist[Len(khist)].period

\* a wait called more than two periods late is followed by a wait that
\* returns at once and by a third one, the targets one period apart
C21_Witness ==
  /\ Len(khist) >= 3
  /\ IsWait(khist[1]) /\ IsWait(khist[2]) /\ IsWait(khist[3])
  /\ khist[1].at >= khist[1].target + 2 * khist[1].period
  /\ khist[2].wake = khist[2].at
  /\ khist[2].target = khist[1].target + khist[1].period
  /\ khist[3].target = khist[2].target + khist[2].period

C24_IntegratorInWindow ==
  upid.integ_min <= upid.integ_max
    => (upid.integ_min <= upid.integ /\ upid.integ <= upid.integ_max)

\* ---- what the recorded calls say about a PID
\* the steps with a time step, which are those that look at the integrator
Steps == {k \in 1..Len(plog) : plog[k].op = "step" /\ plog[k].dt > 0}
ErrorOf(c) == c.before.setpoint - c.y
ProportionalOf(c) == (c.before.kp * ErrorOf(c)) \div 1000

\* the tentative integrator I' of a step
TentativeInteg(c) ==
  Max(c.before.integ_min,
      Min(c.before.integ_max,
          c.before.integ + (ErrorOf(c) * c.dt) \div 10000))

\* the output computed with I', and with the integrator left as it is
TentativeOutput(c) ==
  ProportionalOf(c) + (c.before.ki * TentativeInteg(c)) \div 1000
CurrentOutput(c) ==
  ProportionalOf(c) + (c.before.ki * c.before.integ) \div 1000

\* how far an output lies outside the limits
Saturation(x) == Max(0, Max(x - magnet_max, magnet_min - x))

\* C25: in a step whose tentative output lies outside the limits the
\* integrator either keeps its value or takes I', and it takes I' only when
\* the output with I' lies less far outside the limits than the output
\* with the integrator as it was.
C25_ConditionalIntegration ==
  \A k \in Steps :
    Saturation(TentativeOutput(plog[k])) > 0 =>
      /\ plog[k].after.integ \in {plog[k].before.integ, TentativeInteg(plog[k])}
      /\ plog[k].after.integ # plog[k].before.integ =>
           Saturation(TentativeOutput(plog[k]))
             < Saturation(CurrentOutput(plog[k]))

\* one saturated step took I' and a later saturated step left the
\* integrator alone although I' differed from it
C25_Witness ==
  \E j, k \in Steps :
    /\ j < k
    /\ Saturation(TentativeOutput(plog[j])) > 0
    /\ plog[j].after.integ = TentativeInteg(plog[j])
    /\ plog[j].after.integ # plog[j].before.integ
    /\ Saturation(TentativeOutput(plog[k])) > 0
    /\ plog[k].after.integ = plog[k].before.integ
    /\ TentativeInteg(plog[k]) # plog[k].before.integ

\* a step, a set_setpoint and the step after it
Bumps ==
  {k \in Steps : /\ k >= 3
                 /\ plog[k - 1].op = "set_setpoint"
                 /\ plog[k - 2].op = "step"}

\* C26: the derivative term of the first step after set_setpoint is
\* kd * (y_prev - y) / dt, y_prev being the measurement of the step before
\* the change, and it is the term the step would have produced had the
\* setpoint not been changed.
C26_NoDerivativeKick ==
  \A k \in Bumps :
    /\ plog[k].after.derivative =
         (IF plog[k].before.kd # 0
          THEN (plog[k].before.kd * (plog[k - 2].y - plog[k].y) * 10)
                 \div plog[k].dt
          ELSE 0)
    /\ plog[k].after.derivative =
         PIDstep(plog[k - 1].before, plog[k].y, plog[k].dt,
                 magnet_min, magnet_max).last_derivative

\* the setpoint was changed between two steps with different measurements
\* and a derivative gain
C26_Witness ==
  \E k \in Bumps :
    /\ plog[k].before.kd # 0
    /\ plog[k].before.setpoint # plog[k - 1].before.setpoint
    /\ plog[k].y # plog[k - 2].y
    /\ plog[k].after.derivative # 0

\* C27: whatever the state before, handling a recommission command leaves
\* the PID integrator and previous error at 0, the sensor offset at 0, the
\* emergency stop cleared and control enabled; in the struct loop, which
\* has the magnet and the MPS at hand, the magnet is commanded to 0 and the
\* MPS permits the beam with no abort latched.
C27_RecommissionResets ==
  [][(pc = "handle" /\ cmd = <<P_recommission>> /\ pc' = "reply")
     => /\ pid'.integ = 0
        /\ pid'.prev_err = 0
        /\ bpm_offset' = 0
        /\ ~emergency_stop'
        /\ control_enabled'
        /\ impl = "struct" =>
             /\ magnet' = 0
             /\ is_beam_permitted(prot'.mps)
             /\ ~is_abort_active(prot'.mps)]_vars

\* a recommission was handled after the MPS had latched an abort
C27_Witness ==
  /\ pc = "reply"
  /\ impl = "struct"
  /\ cmd = <<P_recommission>>
  /\ prot.mps.total_aborts > 0
  /\ is_beam_permitted(prot.mps)
  /\ ~emergency_stop
  /\ control_enabled

\* C28: inject_offset adds its argument to the offset of the sensor: the
\* control phase of the struct loop, which injects -0.4 u, leaves the
\* offset at its former value plus -0.4 u.
C28_OffsetAccumulates ==
  [][(/\ pc = "control"
      /\ pc' = "watchdog"
      /\ impl = "struct"
      /\ ControlActive(control_enabled, emergency_stop))
     => bpm_offset' = bpm_offset + (-4 * u') \div 10]_vars

\* the gains a get_status would report
GainsOf(p) == [kp |-> p.kp, ki |-> p.ki, kd |-> p.kd]

FreqPayloads == {P_set_freq_500, P_set_freq_5, P_set_freq_10000}

\* C30: set_freq sets the frequency of the struct loop to the requested hz
\* clamped to [10, 2000] and the period to 1e9 / hz ns of the clamped
\* value: 5 gives 10 Hz and 100 ms, 10000 gives 2000 Hz and 0.5 ms.
C30_FrequencyClamped ==
  [][(sent' = sent + 1 /\ impl = "struct" /\ cmd'[1] \in FreqPayloads)
     => LET requested == Parse(cmd'[1]).m["hz"].v
        IN /\ hz' = (IF requested < 10 THEN 10
                      ELSE IF requested > 2000 THEN 2000 ELSE requested)
           /\ period_ns' = 1000000000 \div hz'
           /\ cmd' = <<P_set_freq_5>> => (hz' = 10 /\ period_ns' = 100000000)
           /\ cmd' = <<P_set_freq_10000>> => (hz' = 2000 /\ period_ns' = 500000)
           /\ cmd' = <<P_set_freq_500>> => (hz' = 500 /\ period_ns' = 2000000)]_vars

\* the frequency was clamped from above and then from below
C30_Witness ==
  /\ impl = "struct"
  /\ cmd = <<P_set_freq_5>>
  /\ sent = 2
  /\ hz = 10
  /\ period_ns = 100000000
  /\ r = <<OkTrue>>

\* the measurements of the monitor exercised on its own whose loss rate
\* exceeded the abort threshold in force
AbortMeasurements ==
  { i \in 1..Len(blog) : /\ blog[i].op = "update_measurement"
                         /\ blog[i].loss > blog[i].threshold_abort }

\* C31: a measurement whose loss rate exceeds the abort threshold reports
\* unsafe, leaves the monitor abort-active and invokes both the warning
\* callback and the abort callback.
C31_AbortFiresBothCallbacks ==
  \A i \in AbortMeasurements :
    /\ ~blog[i].safe
    /\ blog[i].abort_active
    /\ blog[i].warning_cb
    /\ blog[i].abort_cb

\* C32: update_measurement returns true only for a loss rate within the
\* safe limits: every measurement above the abort threshold returns false,
\* the repeated ones while the abort condition persists included.
C32_UnsafeWhileAbortPersists ==
  \A i \in 1..Len(blog) :
    (blog[i].op = "update_measurement" /\ blog[i].safe)
      => blog[i].loss <= blog[i].threshold_abort

\* the warning alarm of monitor i
WarningAlarm(i) ==
  [kind |-> "BLM WARNING", reason |-> "loss rate", source |-> BlmIds[i]]

\* the alarms of a sequence, as a set
AlarmsIn(alarms) == { alarms[k] : k \in 1..Len(alarms) }

\* the loss rate of this iteration's readings lies above the warning
\* threshold of every monitor and above the abort threshold of none
WarningOnly ==
  \A i \in 1..Len(prot.blms) :
    /\ SimulatedLoss(intensity, pos) > prot.blms[i].threshold_warning
    /\ SimulatedLoss(intensity, pos) <= prot.blms[i].threshold_abort

\* C33: a safety evaluation of the permitted struct loop whose loss rate
\* lies above the warning threshold and not above the abort threshold
\* emits the warning alarm of a monitor exactly when that monitor's warning
\* was not active before (the rising edge), emits no other alarm, and
\* leaves beam_permit, abort_latched, emergency_stop, control_enabled and
\* the actuator command as they were.
C33_WarningOnlyAlarms ==
  [][(/\ impl = "struct"
      /\ pc = "mps"
      /\ pc' = "control"
      /\ is_beam_permitted(prot.mps)
      /\ WarningOnly)
     => /\ \A i \in 1..Len(prot.blms) :
             (WarningAlarm(i) \in AlarmsIn(prot'.alarms))
               <=> ~prot.blms[i].warning_active
        /\ AlarmsIn(prot'.alarms) \subseteq
             { WarningAlarm(i) : i \in 1..Len(prot.blms) }
        /\ prot'.mps = prot.mps
        /\ prot'.abort_calls = prot.abort_calls
        /\ emergency_stop' = emergency_stop
        /\ control_enabled' = control_enabled
        /\ magnet' = magnet]_vars

\* the second of two iterations above the warning threshold: the first
\* raised the alarm of each monitor, the second raised none
C33_Witness ==
  /\ impl = "struct"
  /\ pc = "control"
  /\ ticks = 2
  /\ WarningOnly
  /\ prot.alarms = <<>>
  /\ \A i \in 1..Len(prot.blms) :
       /\ prot.blms[i].warning_active
       /\ prot.blms[i].warning_count = 1
       /\ prot.blms[i].total_measurements = 2
  /\ is_beam_permitted(prot.mps)
  /\ ~emergency_stop
  /\ control_enabled

RECURSIVE Increasing(_)
Increasing(es) ==
  \/ Len(es) < 2
  \/ /\ es[1].id < es[2].id
     /\ Increasing(Tail(es))

\* C35: with a single producer pushing, every element for_each hands to f
\* is one that was pushed, whole, and the elements come in the order of
\* their insertion, oldest first.
C35_ForEachInOrder ==
  rthr.nprod = 1
    => /\ \A i \in 1..Len(rthr.visited) : is_valid(rthr.visited[i])
       /\ Increasing(rthr.visited)

\* the pushes all producers have completed
CompletedPushes == rthr.pushed[1] + rthr.pushed[2]

\* C36: whenever the producer threads have together completed N pushes and
\* none is inside push, size() is min(N, capacity).
C36_NoPushLost ==
  (\A t \in Producers : rthr.pc[t] = "idle")
    => size(ring) = Min(CompletedPushes, RingCapacity)

\* the loss rate of this iteration's readings exceeds the abort threshold
\* of the first monitor
AboveAbort == SimulatedLoss(intensity, pos) > prot.blms[1].threshold_abort

\* C37: in the struct loop, every iteration whose readings lie above the
\* abort threshold leaves its safety evaluation with the permit withdrawn
\* and the emergency stop set, whether or not a recommission was handled
\* since the last trip, and its control phase commands 0; between two
\* control phases the actuator command changes only to 0.  So while the
\* readings stay above the threshold the command is 0 from the trip on.
C37_ZeroWhileAboveAbort ==
  [][impl = "struct"
     => /\ (pc = "mps" /\ pc' = "control" /\ AboveAbort)
            => /\ ~is_beam_permitted(prot'.mps)
               /\ emergency_stop'
               /\ ~control_enabled'
        /\ (pc = "control" /\ pc' = "watchdog" /\ AboveAbort)
            => (magnet' = 0 /\ u' = 0)
        /\ (pc # "control" /\ magnet' # magnet) => magnet' = 0]_vars

\* the second trip: recommission was handled in the first iteration after
\* its trip, the second iteration read the same beam and tripped again
\* (each trip counts two aborts, one from the monitor's callback and one
\* from check_safety), and its control phase has commanded 0 where the PID
\* would not
C37_Witness ==
  /\ impl = "struct"
  /\ pc = "watchdog"
  /\ ticks = 2
  /\ AboveAbort
  /\ prot.mps.total_aborts = 4
  /\ prot.blms[1].abort_count = 1
  /\ WouldOutput # 0
  /\ magnet = 0

\* C38: a request pending when the loop polls is received by that poll and
\* answered before that iteration ends, and a request that was received is
\* answered at some time, unless handling it ends run() with an exception
\* or the running flag is cleared: no request stays unanswered for ever
\* while the loop runs on.
C38_EveryRequestAnswered ==
  /\ [][(pc = "poll" /\ pending # <<>> /\ pc' # "poll")
        => (awaiting' /\ cmd' = <<Head(pending)>>)]_vars
  /\ [][(pc = "wait" /\ pc' = "top") => ~awaiting]_vars
  /\ (awaiting ~> (~awaiting \/ pc = "crashed" \/ ~running))

\* C39: when run() has returned after the running flag was cleared, the
\* current last commanded to the magnet is 0, in either loop.
C39_ZeroAtExit ==
  (pc = "done" /\ ~running) => magnet = 0

\* C40: for a request of any length, recv reads no byte outside its buffer:
\* every byte of the string it returns was stored in the buffer by the
\* receive call.
C40_RecvWithinBuffer ==
  \A i \in 1..Len(rx) :
    /\ rx[i].beyond = 0
    /\ rx[i].stored = rx[i].size
    /\ rx[i].outcome = "string"

====
